---------------------------- MODULE Spec2Model ----------------------------
(***************************************************************************)
(* Mailbox synchronisation and message-processing pipeline of the Onebox   *)
(* e-mail backend: ImapService (one connection per account), the          *)
(* EmailSyncService that initialises accounts and consumes newEmail       *)
(* events, AIService classification and ElasticsearchService persistence. *)
(*                                                                         *)
(* Spec      one account: connect, backfill, watch loop, close/reconnect, *)
(*           disconnect, against a folder that changes underneath.        *)
(* FairSpec  Spec with the fairness Node's timers give.                   *)
(* SpecWatch the watch loop of one session against a changing folder.      *)
(* SpecBulk  the bulk path on a drawn backfill batch.                       *)
(* SpecInc   the incremental path on emitted e-mails.                      *)
(***************************************************************************)
EXTENDS Integers, Sequences, FiniteSets, TLC

\* ------------------------------------------------------------------ bounds
\* Accounts in the list given to initializeAccounts.
MaxAccounts == 3
\* Ids recategorizeEmail is called with (1..MaxRecatId).
MaxRecatId == 3
\* E-mails of the backfill batch where both paths run side by side.
PipeBatch == 2
\* newEmail events where both paths run side by side.
PipeEvents == 1
\* Mail items that arrive while the watch loop feeds the handlers.
LoopMaxUid == 2
\* E-mails given to batchCategorizeEmails where its chunks are followed.
MaxChunkBatch == 12
\* Mail items that ever exist in the INBOX (uids 1..MaxUid).
MaxUid == 3
\* Watch-loop callbacks of one connection that may be in flight together.
MaxTicks == 2
\* Pending reconnect timers plus reconnect() calls in flight.
MaxPending == 2
\* Mail items and watch-loop callbacks of the connection life-cycle
\* specification.
LifeMaxUid == 1
LifeTicks == 1
\* Messages drawn for the bulk path specification.
MaxBatch == 3
\* newEmail events delivered in the incremental path specification.
MaxEvents == 2

\* ------------------------------------------------------- program constants
\* AIService.batchCategorizeEmails: const batchSize = 5
batchSize == 5

VARIABLES
    folder,           \* INBOX on the server: uids in arrival order
    nextUid,          \* uid the next arriving item gets
    sessionOpen,      \* the ImapFlow client has an open session
    isConnected,      \* ImapService.isConnected
    pollIntervalId,   \* ImapService.pollIntervalId is set
    lastExists,       \* ImapService.lastExists (the watermark)
    reconnectTimers,  \* pending setTimeout(() => this.reconnect(), 5000)
    rcConnecting,     \* reconnect() calls awaiting imap.connect()
    rcOpening,        \* reconnect() calls awaiting mailboxOpen in connect()
    lockHolder,       \* holder of the INBOX mailbox lock
    tickPc, tickN,    \* watch-loop callbacks: position, newCount
    initPc,           \* initializeAccount: position
    batch,            \* the emails array of the bulk path
    bfIndex,          \* batchCategorizeEmails: loop index i
    results,          \* batchCategorizeEmails: results map, id -> category
    registered,       \* the account is in EmailSyncService.imapServices
    discPc,           \* disconnect(): position
    disconnectCalled, \* disconnect() has been called on the connection
    handlers,         \* handleNewEmail calls in flight
    nextId,           \* next uuid convertToEmail hands out
    esIndex,          \* documents in the Elasticsearch index: id -> category
    esFailed,         \* ids whose index write failed
    surfaced,         \* id -> persist failures thrown to the pipeline for it
    notified,         \* id -> handleInterestedEmail calls issued for it
    emitted,          \* uids emitted as newEmail, in order
    lastDelta,        \* how the count a tick last read compared with the watermark
    raced,            \* the folder changed between a count read and its fetch
    ticksSinceChange, \* count reads by ticks since the folder last changed
    lastAttempt,      \* how the last finished connection attempt ended
    acctState,        \* initializeAccounts: how far each account of the list got
    imapServices,     \* EmailSyncService.imapServices: the accounts in the map
    supPc,            \* initializeAccounts / shutdown: position
    supIdx,           \* index of the loop of initializeAccounts / shutdown
    supThrew,         \* initializeAccounts or shutdown has thrown
    disconnected,     \* account -> how the disconnect() invoked on it went
    recatPc,          \* recategorizeEmail: position
    recatId,          \* recategorizeEmail: its emailId
    recatCategory,    \* recategorizeEmail: the category it is about to write
    recatCalls,       \* calls the current recategorizeEmail has made
    recatResult,      \* how the last recategorizeEmail ended
    chunkLog,         \* batchCategorizeEmails: sizes of the chunks issued
    inFlight,         \* categorizeEmail calls of batchCategorizeEmails pending
    notifyFailed,     \* ids for which a sink of handleInterestedEmail failed
    classFailed,      \* ids whose classification call failed
    lastResult,       \* what the last single categorizeEmail call returned
    tickErrors,       \* a watch tick has caught an error
    sinkCalls,        \* id -> calls of each sink made for it
    exited,           \* process.exit has run
    intervalTimers    \* live setInterval timers of the connection

vars == <<folder, nextUid, sessionOpen, isConnected, pollIntervalId, lastExists,
          reconnectTimers, rcConnecting, rcOpening, lockHolder, tickPc, tickN,
          initPc, batch, bfIndex, results, registered, discPc, disconnectCalled,
          handlers, nextId, esIndex, esFailed, surfaced, notified, emitted,
          lastDelta, raced, ticksSinceChange, lastAttempt,
          acctState, imapServices, supPc, supIdx, supThrew, disconnected,
          recatPc, recatId, recatCategory, recatCalls, recatResult, chunkLog, inFlight,
          notifyFailed, classFailed, lastResult, tickErrors, sinkCalls, exited,
          intervalTimers>>

serverVars == <<folder, nextUid>>
connVars == <<sessionOpen, isConnected, pollIntervalId, intervalTimers, lastExists,
              reconnectTimers, rcConnecting, rcOpening>>
tickVars == <<tickPc, tickN>>
bulkVars == <<initPc, batch, bfIndex, results, registered>>
discVars == <<discPc, disconnectCalled>>
pipeVars == <<handlers, esIndex, esFailed, surfaced, notified>>
obsVars == <<lastDelta, raced, ticksSinceChange, lastAttempt>>
supVars == <<acctState, imapServices, supPc, supIdx, supThrew, disconnected>>
recatVars == <<recatPc, recatId, recatCategory, recatCalls, recatResult>>
chunkVars == <<chunkLog, inFlight>>
sideVars == <<supVars, recatVars, chunkVars>>
ghostVars == <<notifyFailed, classFailed, lastResult>>
downVars == <<tickErrors, sinkCalls, exited>>
extVars == <<sideVars, ghostVars, downVars>>

Ticks == 1..MaxTicks
Uids == 1..MaxUid
None == "undefined"
\* Holders of the mailbox lock.
NoLock == <<"none", 0>>
BackfillLock == <<"backfill", 0>>
TickLockOf(t) == <<"tick", t>>

\* A fetch whose lock.release() is the last statement of the try block:
\* reached on the normal return only.
LockAfterFetchNoFinally(holder, exit) == IF exit = "return" THEN NoLock ELSE holder

\* fetchLast30Days and fetchRecentEmails: the holder of the mailbox lock once
\* the fetch has left its try block, by the return at its end ("return"),
\* by the early return of an empty search ("empty") or by an error
\* ("throw"): finally { lock.release() } runs on each.
LockAfterFetch(holder, exit) == NoLock

\* --------------------------------------------------------------- helpers
Min(a, b) == IF a < b THEN a ELSE b

RECURSIVE SeqToSet(_)
SeqToSet(s) == IF s = <<>> THEN {} ELSE {Head(s)} \cup SeqToSet(Tail(s))

\* s without the elements outside keep, order kept.
RECURSIVE Filter(_, _)
Filter(s, keep) ==
    IF s = <<>> THEN <<>>
    ELSE IF Head(s) \in keep THEN <<Head(s)>> \o Filter(Tail(s), keep)
    ELSE Filter(Tail(s), keep)

\* Array.prototype.slice(-count): the last count elements; slice(-0) is
\* slice(0), the whole array.
SliceLast(s, count) ==
    IF count = 0 \/ count >= Len(s) THEN s
    ELSE SubSeq(s, Len(s) - count + 1, Len(s))

\* Number of occurrences of u in s.
RECURSIVE Occurrences(_, _)
Occurrences(s, u) ==
    IF s = <<>> THEN 0
    ELSE (IF Head(s) = u THEN 1 ELSE 0) + Occurrences(Tail(s), u)


\* ---------------------------------------------------------- classification
\* enum EmailCategory
INTERESTED == "Interested"
MEETING_BOOKED == "Meeting Booked"
NOT_INTERESTED == "Not Interested"
SPAM == "Spam"
OUT_OF_OFFICE == "Out of Office"
UNCATEGORIZED == "Uncategorized"
EmailCategory ==
    {INTERESTED, MEETING_BOOKED, NOT_INTERESTED, SPAM, OUT_OF_OFFICE, UNCATEGORIZED}

\* Text is a sequence of one-character strings.
UpperLower ==
    { <<"A", "a">>, <<"B", "b">>, <<"C", "c">>, <<"D", "d">>, <<"E", "e">>, <<"F", "f">>,
      <<"G", "g">>, <<"H", "h">>, <<"I", "i">>, <<"J", "j">>, <<"K", "k">>, <<"L", "l">>,
      <<"M", "m">>, <<"N", "n">>, <<"O", "o">>, <<"P", "p">>, <<"Q", "q">>, <<"R", "r">>,
      <<"S", "s">>, <<"T", "t">>, <<"U", "u">>, <<"V", "v">>, <<"W", "w">>, <<"X", "x">>,
      <<"Y", "y">>, <<"Z", "z">> }
LowerChar(c) ==
    IF \E p \in UpperLower : p[1] = c
    THEN (CHOOSE p \in UpperLower : p[1] = c)[2]
    ELSE c
\* String.prototype.toLowerCase
ToLowerCase(s) == [i \in 1..Len(s) |-> LowerChar(s[i])]
\* String.prototype.trim (blanks only)
RECURSIVE TrimLeft(_)
TrimLeft(s) == IF s # <<>> /\ Head(s) = " " THEN TrimLeft(Tail(s)) ELSE s
RECURSIVE TrimRight(_)
TrimRight(s) ==
    IF s # <<>> /\ s[Len(s)] = " " THEN TrimRight(SubSeq(s, 1, Len(s) - 1)) ELSE s
Trim(s) == TrimRight(TrimLeft(s))
\* String.prototype.includes
Includes(s, sub) ==
    \E i \in 1..(Len(s) - Len(sub) + 1) : SubSeq(s, i, i + Len(sub) - 1) = sub

W_interested == <<"i", "n", "t", "e", "r", "e", "s", "t", "e", "d">>
W_not == <<"n", "o", "t">>
W_meeting == <<"m", "e", "e", "t", "i", "n", "g">>
W_booked == <<"b", "o", "o", "k", "e", "d">>
W_not_interested == <<"n", "o", "t", " ", "i", "n", "t", "e", "r", "e", "s", "t", "e", "d">>
W_decline == <<"d", "e", "c", "l", "i", "n", "e">>
W_spam == <<"s", "p", "a", "m">>
W_out_of_office == <<"o", "u", "t", " ", "o", "f", " ", "o", "f", "f", "i", "c", "e">>
W_ooo == <<"o", "o", "o">>

\* AIService.mapToEmailCategory
mapToEmailCategory(category) ==
    LET normalized == Trim(ToLowerCase(category)) IN
    IF Includes(normalized, W_interested) /\ ~Includes(normalized, W_not)
        THEN INTERESTED
    ELSE IF Includes(normalized, W_meeting) \/ Includes(normalized, W_booked)
        THEN MEETING_BOOKED
    ELSE IF Includes(normalized, W_not_interested) \/ Includes(normalized, W_decline)
        THEN NOT_INTERESTED
    ELSE IF Includes(normalized, W_spam)
        THEN SPAM
    ELSE IF Includes(normalized, W_out_of_office) \/ Includes(normalized, W_ooo)
        THEN OUT_OF_OFFICE
    ELSE UNCATEGORIZED

\* What the classification collaborator may answer with.
RawInterested == <<"I", "n", "t", "e", "r", "e", "s", "t", "e", "d">>
RawNotInterested == <<"N", "o", "t", " ", "I", "n", "t", "e", "r", "e", "s", "t", "e", "d">>
RawMeetingBooked == <<"M", "e", "e", "t", "i", "n", "g", " ", "B", "o", "o", "k", "e", "d">>
RawSpam == <<"S", "p", "a", "m">>
RawOutOfOffice == <<" ", "O", "u", "t", " ", "o", "f", " ", "O", "f", "f", "i", "c", "e", " ">>
RawOther == <<"O", "t", "h", "e", "r">>
RawCategories ==
    {RawInterested, RawNotInterested, RawMeetingBooked, RawSpam, RawOutOfOffice, RawOther}
\* A call of the chat-completion API: it throws (network, rate limit, a body
\* that is not JSON), or it yields a JSON object whose category is missing,
\* or one whose category is a text.
Responses ==
    {[kind |-> "throw", category |-> <<>>], [kind |-> "missing", category |-> <<>>]}
    \cup {[kind |-> "text", category |-> c] : c \in RawCategories}
\* The answers drawn where the category itself is not what is examined.
FewResponses ==
    {[kind |-> "throw", category |-> <<>>],
     [kind |-> "text", category |-> RawInterested]}

\* categorizeEmail with a catch block that returns no category.
CategorizeFailureUndefined == None

\* The category categorizeEmail returns when the call fails: the catch block.
CategorizeFailure == UNCATEGORIZED

\* AIService.categorizeEmail: the category of the result it resolves with. A
\* missing category makes mapToEmailCategory throw a TypeError inside the try.
categorizeEmail(resp) ==
    IF resp.kind \in {"throw", "missing"}
    THEN CategorizeFailure
    ELSE mapToEmailCategory(resp.category)

\* The call or the reading of its answer fails: the API call rejects, the
\* content is not JSON, or mapToEmailCategory throws on a missing category.
ClassificationFails(resp) == resp.kind \in {"throw", "missing"}

\* Confidences an answer carries, in tenths; 0 stands for one that is
\* absent or zero.
Confidences == {0, 3, 9}

\* result.confidence || 0.5, in tenths.
DefaultConfidence == 5

\* A catch block of categorizeEmail that logs and rethrows.
CategorizeCatchRethrows ==
    [threw |-> TRUE, failed |-> TRUE, category |-> None, confidence |-> -1]

\* The catch block of categorizeEmail: what it returns.
CategorizeCatch ==
    [threw |-> FALSE, failed |-> TRUE, category |-> CategorizeFailure, confidence |-> 0]

\* A categorizeEmail without its try/catch: a failure rejects.
categorizeEmailNoCatch(resp, conf) ==
    IF ClassificationFails(resp)
    THEN CategorizeCatchRethrows
    ELSE [threw |-> FALSE, failed |-> FALSE, category |-> categorizeEmail(resp),
          confidence |-> IF conf = 0 THEN DefaultConfidence ELSE conf]

\* AIService.categorizeEmail: the outcome of the call, with the confidence.
categorizeEmailResult(resp, conf) ==
    IF ClassificationFails(resp)
    THEN CategorizeCatch
    ELSE [threw |-> FALSE, failed |-> FALSE, category |-> categorizeEmail(resp),
          confidence |-> IF conf = 0 THEN DefaultConfidence ELSE conf]

\* ---------------------------------------------------- NotificationService
\* What the two sinks of handleInterestedEmail do: each resolves or rejects.
SinkOutcomes == [slack : BOOLEAN, webhook : BOOLEAN]

\* The outcomes drawn where one failing sink stands for any: both sinks
\* resolve, or the Slack call rejects.
FewSinks == {[slack |-> TRUE, webhook |-> TRUE], [slack |-> FALSE, webhook |-> TRUE]}

\* Promise.all of sendSlackNotification and triggerWebhook rejects.
FanoutFailed(sinks) == ~(sinks.slack /\ sinks.webhook)

\* A handleInterestedEmail that awaits the chat sink before it calls the
\* webhook sink.
SinksInvokedInTurn(sinks) == [slack |-> 1, webhook |-> IF sinks.slack THEN 1 ELSE 0]

\* handleInterestedEmail: the calls of sendSlackNotification and
\* triggerWebhook it makes; both are made before Promise.all is awaited,
\* whatever their outcomes, and none is repeated.
SinksInvoked(sinks) == [slack |-> 1, webhook |-> 1]

\* The calls of the sinks made for id, with those of one more fan-out.
WithSinkCalls(calls, id, made) ==
    [x \in DOMAIN calls \cup {id} |->
        IF x # id THEN calls[x]
        ELSE IF id \in DOMAIN calls
             THEN [slack |-> calls[id].slack + made.slack,
                   webhook |-> calls[id].webhook + made.webhook]
             ELSE made]

\* A handleInterestedEmail whose catch logs and rethrows.
handleInterestedEmailRethrows(sinks) == FanoutFailed(sinks)

\* NotificationService.handleInterestedEmail rejects: never, its catch
\* block logs and returns.
handleInterestedEmailRejects(sinks) == FALSE


\* ----------------------------------------------------------- mail server
\* A watch tick is between its count read and the search of its fetch.
TickBetweenReadAndFetch == \E t \in Ticks : tickPc[t] \in {"lock", "fetch"}

\* A message arrives in the INBOX.
Arrive(limit) ==
    /\ nextUid <= limit
    /\ folder' = Append(folder, nextUid)
    /\ nextUid' = nextUid + 1
    /\ raced' = (raced \/ TickBetweenReadAndFetch)
    /\ ticksSinceChange' = 0
    /\ UNCHANGED <<extVars, connVars, lockHolder, tickVars, bulkVars, discVars, pipeVars,
                   nextId, emitted, lastDelta, lastAttempt>>

\* A message is deleted from the INBOX by another client.
Delete(u) ==
    /\ u \in SeqToSet(folder)
    /\ folder' = Filter(folder, SeqToSet(folder) \ {u})
    /\ raced' = (raced \/ TickBetweenReadAndFetch)
    /\ ticksSinceChange' = 0
    /\ UNCHANGED <<extVars, nextUid, connVars, lockHolder, tickVars, bulkVars, discVars,
                   pipeVars, nextId, emitted, lastDelta, lastAttempt>>

\* ------------------------------------------------------------ ImapService
Pending == reconnectTimers + rcConnecting + rcOpening

\* startPollingForNewMail without its guard: a timer is created every time.
TimersStartedUnguarded(id) == 1

\* ImapService.startPollingForNewMail: the number of setInterval timers it
\* creates (none when pollIntervalId is set).
TimersStarted(id) == IF id THEN 0 ELSE 1

\* ImapService.disconnect: the number of timers its clearInterval stops (the
\* one held in pollIntervalId, when it is set).
TimersCleared(id) == IF id THEN 1 ELSE 0

\* ImapService.startPollingForNewMail: the value of pollIntervalId after it
\* (a timer is created unless one is set).
startPollingForNewMail(id) == TRUE

\* The 'close' handler of the constructor: the new isConnected and the
\* number of reconnect timers it adds.
CloseHandlerTimers == 1

\* The connection closes underneath (the server or the network drops it).
ConnClose ==
    /\ sessionOpen
    /\ Pending < MaxPending
    /\ sessionOpen' = FALSE
    /\ isConnected' = FALSE
    /\ reconnectTimers' = reconnectTimers + CloseHandlerTimers
    /\ UNCHANGED <<extVars, serverVars, pollIntervalId, intervalTimers, lastExists, rcConnecting, rcOpening,
                   lockHolder, tickVars, bulkVars, discVars, pipeVars, nextId,
                   emitted, obsVars>>

\* reconnect() with its guard inverted: if (!this.isConnected) return.
ReconnectCallsInverted(connected) == IF connected THEN 1 ELSE 0

\* ImapService.reconnect, called by a timer: returns at once when connected,
\* else calls connect() and waits for imap.connect().
ReconnectCalls(connected) == IF connected THEN 0 ELSE 1

ReconnectTimerFires ==
    /\ reconnectTimers > 0
    /\ reconnectTimers' = reconnectTimers - 1
    /\ rcConnecting' = rcConnecting + ReconnectCalls(isConnected)
    /\ UNCHANGED <<extVars, serverVars, sessionOpen, isConnected, pollIntervalId, intervalTimers, lastExists,
                   rcOpening, lockHolder, tickVars, bulkVars, discVars, pipeVars,
                   nextId, emitted, obsVars>>

\* connect() called by reconnect(): imap.connect() resolves; isConnected is
\* set and mailboxOpen('INBOX') is awaited.
RcConnectOK ==
    /\ rcConnecting > 0
    /\ rcConnecting' = rcConnecting - 1
    /\ rcOpening' = rcOpening + 1
    /\ sessionOpen' = TRUE
    /\ isConnected' = TRUE
    /\ UNCHANGED <<extVars, serverVars, pollIntervalId, intervalTimers, lastExists, reconnectTimers,
                   lockHolder, tickVars, bulkVars, discVars, pipeVars, nextId,
                   emitted, obsVars>>

\* Timers the catch block of reconnect() schedules.
ReconnectCatchTimers == 1

\* connect() called by reconnect(): imap.connect() rejects; the catch block
\* schedules the next attempt. The client may also emit 'close' for the
\* failed attempt (closeEv), which runs the close handler.
RcConnectFail(closeEv) ==
    /\ rcConnecting > 0
    /\ closeEv => (~sessionOpen /\ Pending < MaxPending)
    /\ rcConnecting' = rcConnecting - 1
    /\ reconnectTimers' = reconnectTimers + ReconnectCatchTimers
                          + (IF closeEv THEN CloseHandlerTimers ELSE 0)
    /\ isConnected' = (IF closeEv THEN FALSE ELSE isConnected)
    /\ lastAttempt' = "failed"
    /\ UNCHANGED <<extVars, serverVars, sessionOpen, pollIntervalId, intervalTimers, lastExists, rcOpening,
                   lockHolder, tickVars, bulkVars, discVars, pipeVars, nextId,
                   emitted, lastDelta, raced, ticksSinceChange>>

\* connect() called by reconnect(): mailboxOpen resolves; the watermark is
\* set to the count and polling is started.
RcOpenOK ==
    /\ rcOpening > 0
    /\ sessionOpen
    /\ rcOpening' = rcOpening - 1
    /\ lastExists' = Len(folder)
    /\ pollIntervalId' = startPollingForNewMail(pollIntervalId)
    /\ intervalTimers' = intervalTimers + TimersStarted(pollIntervalId)
    /\ lastAttempt' = "reconnected"
    /\ UNCHANGED <<extVars, serverVars, sessionOpen, isConnected, reconnectTimers,
                   rcConnecting, lockHolder, tickVars, bulkVars, discVars,
                   pipeVars, nextId, emitted, lastDelta, raced, ticksSinceChange>>

\* connect() called by reconnect(): mailboxOpen rejects after isConnected
\* was set; the catch block of reconnect() schedules the next attempt.
RcOpenFail ==
    /\ rcOpening > 0
    /\ rcOpening' = rcOpening - 1
    /\ reconnectTimers' = reconnectTimers + ReconnectCatchTimers
    /\ lastAttempt' = "failed"
    /\ UNCHANGED <<extVars, serverVars, sessionOpen, isConnected, pollIntervalId, intervalTimers, lastExists,
                   rcConnecting, lockHolder, tickVars, bulkVars, discVars,
                   pipeVars, nextId, emitted, lastDelta, raced, ticksSinceChange>>


\* ---------------------------------------------------------- the watch loop
\* The test of the tick written exists >= this.lastExists.
DetectsOrEqual(exists, last) == exists >= last

\* The test of the tick: the count read is above the watermark.
Detects(exists, last) == exists > last

\* The tick without its else branch: the watermark only ever rises.
WatermarkRaisedOnly(exists, last) == IF exists > last THEN exists ELSE last

\* The tick without the assignment of its if branch: a rise is never recorded.
WatermarkLoweredOnly(exists, last) == IF exists > last THEN last ELSE exists

\* The watermark after a tick has read exists: both branches assign it.
NextWatermark(exists, last) == exists

\* const newCount = exists - this.lastExists
NewCount(exists, last) == exists - last

\* fetchRecentEmails with uids.slice(0, count): the oldest count items.
fetchRecentEmailsOldest(count, uids, ok) ==
    IF uids = <<>> THEN <<>> ELSE Filter(SubSeq(uids, 1, Min(count, Len(uids))), ok)

\* ImapService.fetchRecentEmails(count): search({all: true}) lists uids, the
\* last count of them are fetched, and the items that come back with a
\* source and parse (ok) are converted, in fetch order.
fetchRecentEmails(count, uids, ok) ==
    IF uids = <<>> THEN <<>> ELSE Filter(SliceLast(uids, count), ok)

\* handleNewEmail(email) up to its first await: the classification call of
\* one handler per emitted e-mail is pending.
NewHandlers(got, firstId) ==
    {[id |-> firstId + k - 1, uid |-> got[k], pc |-> "classify", category |-> None] :
        k \in 1..Len(got)}

\* recent.forEach(email => this.emit('newEmail', email))
Emit(got) ==
    /\ emitted' = emitted \o got
    /\ handlers' = handlers \cup NewHandlers(got, nextId)
    /\ nextId' = nextId + Len(got)

\* The setInterval callback runs: it returns when not connected, else it
\* awaits mailboxOpen('INBOX').
TickFire(t) ==
    /\ pollIntervalId
    /\ tickPc[t] = "idle"
    /\ tickPc' = [tickPc EXCEPT ![t] = IF isConnected THEN "open" ELSE "idle"]
    /\ UNCHANGED <<extVars, serverVars, connVars, lockHolder, tickN, bulkVars, discVars,
                   pipeVars, nextId, emitted, obsVars>>

\* mailboxOpen resolves with the count: the watermark is updated and, when
\* the count rose, fetchRecentEmails(newCount) waits for the mailbox lock.
TickRead(t) ==
    /\ tickPc[t] = "open"
    /\ sessionOpen
    /\ LET exists == Len(folder) IN
        /\ lastExists' = NextWatermark(exists, lastExists)
        /\ IF Detects(exists, lastExists)
           THEN /\ tickN' = [tickN EXCEPT ![t] = NewCount(exists, lastExists)]
                /\ tickPc' = [tickPc EXCEPT ![t] = "lock"]
           ELSE /\ tickN' = [tickN EXCEPT ![t] = 0]
                /\ tickPc' = [tickPc EXCEPT ![t] = "idle"]
    /\ ticksSinceChange' = Min(ticksSinceChange + 1, 2)
    /\ lastDelta' = (IF Len(folder) > lastExists THEN "rose"
                     ELSE IF Len(folder) < lastExists THEN "fell" ELSE "same")
    /\ UNCHANGED <<extVars, serverVars, sessionOpen, isConnected, pollIntervalId, intervalTimers,
                   reconnectTimers, rcConnecting, rcOpening, lockHolder, bulkVars,
                   discVars, pipeVars, nextId, emitted, raced, lastAttempt>>

\* A catch block of the tick that clears the interval.
IntervalClearedByTickCatch(timer) == FALSE

\* The poll interval after the catch block of the tick has run: the block
\* logs the error and touches neither the interval nor the connection.
IntervalAfterTickCatch(timer) == timer

\* mailboxOpen or getMailboxLock rejects: the catch of the tick logs it.
TickError(t) ==
    /\ tickPc[t] \in {"open", "lock"}
    /\ tickPc' = [tickPc EXCEPT ![t] = "idle"]
    /\ tickN' = [tickN EXCEPT ![t] = 0]
    /\ tickErrors' = TRUE
    /\ pollIntervalId' = IntervalAfterTickCatch(pollIntervalId)
    /\ UNCHANGED intervalTimers
    /\ UNCHANGED <<sideVars, ghostVars, sinkCalls, exited, serverVars, sessionOpen,
                   isConnected, lastExists, reconnectTimers, rcConnecting, rcOpening,
                   lockHolder, bulkVars, discVars, pipeVars, nextId, emitted, obsVars>>

\* getMailboxLock resolves.
TickLock(t) ==
    /\ tickPc[t] = "lock"
    /\ lockHolder = NoLock
    /\ lockHolder' = TickLockOf(t)
    /\ tickPc' = [tickPc EXCEPT ![t] = "fetch"]
    /\ UNCHANGED <<extVars, serverVars, connVars, tickN, bulkVars, discVars, pipeVars,
                   nextId, emitted, obsVars>>

\* The search and the fetch of fetchRecentEmails return, the lock is
\* released, and the tick emits newEmail for each e-mail it got.
TickFetch(t, ok) ==
    /\ tickPc[t] = "fetch"
    /\ sessionOpen
    /\ LET got == fetchRecentEmails(tickN[t], folder, ok) IN
        Emit(got)
    /\ lockHolder' = LockAfterFetch(lockHolder, IF folder = <<>> THEN "empty" ELSE "return")
    /\ tickPc' = [tickPc EXCEPT ![t] = "idle"]
    /\ tickN' = [tickN EXCEPT ![t] = 0]
    /\ UNCHANGED <<extVars, serverVars, connVars, bulkVars, discVars, esIndex, esFailed,
                   surfaced, notified, obsVars>>

\* The search or the fetch throws: finally releases the lock, the catch of
\* the tick logs the error, nothing is emitted.
TickFetchThrows(t) ==
    /\ tickPc[t] = "fetch"
    /\ lockHolder' = LockAfterFetch(lockHolder, "throw")
    /\ tickPc' = [tickPc EXCEPT ![t] = "idle"]
    /\ tickN' = [tickN EXCEPT ![t] = 0]
    /\ tickErrors' = TRUE
    /\ pollIntervalId' = IntervalAfterTickCatch(pollIntervalId)
    /\ UNCHANGED intervalTimers
    /\ UNCHANGED <<sideVars, ghostVars, sinkCalls, exited, serverVars, sessionOpen,
                   isConnected, lastExists, reconnectTimers, rcConnecting, rcOpening,
                   bulkVars, discVars, pipeVars, nextId, emitted, obsVars>>

\* ---------------------------------------------------------------- disconnect
\* ImapService.disconnect, called by EmailSyncService.shutdown for the
\* registered connection (the map is cleared after the loop): the interval
\* is cleared and, when connected, imap.logout() is awaited.
Disconnect ==
    /\ registered
    /\ discPc = "idle"
    /\ registered' = FALSE
    /\ disconnectCalled' = TRUE
    /\ pollIntervalId' = FALSE
    /\ intervalTimers' = intervalTimers - TimersCleared(pollIntervalId)
    /\ discPc' = IF isConnected THEN "logout" ELSE "idle"
    /\ UNCHANGED <<extVars, serverVars, sessionOpen, isConnected, lastExists, reconnectTimers,
                   rcConnecting, rcOpening, lockHolder, tickVars, initPc, batch,
                   bfIndex, results, pipeVars, nextId, emitted, obsVars>>

\* ImapService.disconnect called once more, after an earlier call has
\* returned: the same code runs, so the interval is cleared if one is set
\* and imap.logout() is awaited if isConnected is set.
DisconnectAgain ==
    /\ disconnectCalled
    /\ discPc = "idle"
    /\ pollIntervalId' = FALSE
    /\ intervalTimers' = intervalTimers - TimersCleared(pollIntervalId)
    /\ discPc' = IF isConnected THEN "logout" ELSE "idle"
    /\ UNCHANGED <<extVars, serverVars, sessionOpen, isConnected, lastExists, reconnectTimers,
                   rcConnecting, rcOpening, lockHolder, tickVars, bulkVars,
                   disconnectCalled, pipeVars, nextId, emitted, obsVars>>

\* imap.logout() resolves: the session is closed, which emits 'close' and
\* runs the close handler; disconnect then clears isConnected.
LogoutOK ==
    /\ discPc = "logout"
    /\ sessionOpen
    /\ Pending < MaxPending
    /\ sessionOpen' = FALSE
    /\ isConnected' = FALSE
    /\ reconnectTimers' = reconnectTimers + CloseHandlerTimers
    /\ discPc' = "idle"
    /\ UNCHANGED <<extVars, serverVars, pollIntervalId, intervalTimers, lastExists, rcConnecting, rcOpening,
                   lockHolder, tickVars, bulkVars, disconnectCalled, pipeVars,
                   nextId, emitted, obsVars>>

\* imap.logout() rejects: the error is logged, isConnected is left alone.
LogoutFail ==
    /\ discPc = "logout"
    /\ discPc' = "idle"
    /\ UNCHANGED <<extVars, serverVars, connVars, lockHolder, tickVars, bulkVars,
                   disconnectCalled, pipeVars, nextId, emitted, obsVars>>


\* ------------------------------------------------- account initialisation
Count(f, id) == IF id \in DOMAIN f THEN f[id] ELSE 0
Bump(f, ids) == [id \in DOMAIN f \cup ids |-> Count(f, id) + (IF id \in ids THEN 1 ELSE 0)]
BatchIds == {batch[k].id : k \in 1..Len(batch)}

\* EmailSyncService.initializeAccount: the ImapService is built, the event
\* handlers are registered and connect() awaits imap.connect().
InitializeAccount ==
    /\ initPc = "start"
    /\ initPc' = "connect"
    /\ UNCHANGED <<extVars, serverVars, connVars, lockHolder, tickVars, batch, bfIndex,
                   results, registered, discVars, pipeVars, nextId, emitted, obsVars>>

\* connect() of initializeAccount: imap.connect() resolves.
InitConnectOK ==
    /\ initPc = "connect"
    /\ initPc' = "open"
    /\ sessionOpen' = TRUE
    /\ isConnected' = TRUE
    /\ UNCHANGED <<extVars, serverVars, pollIntervalId, intervalTimers, lastExists, reconnectTimers,
                   rcConnecting, rcOpening, lockHolder, tickVars, batch, bfIndex,
                   results, registered, discVars, pipeVars, nextId, emitted, obsVars>>

\* Timers scheduled by initializeAccounts when initializeAccount throws: the
\* catch block only logs.
InitCatchTimers == 0

\* connect() of initializeAccount: imap.connect() rejects; the error leaves
\* initializeAccount and is logged by initializeAccounts. The client may
\* emit 'close' for the failed attempt (closeEv).
InitConnectFail(closeEv) ==
    /\ initPc = "connect"
    /\ closeEv => Pending < MaxPending
    /\ initPc' = "failed"
    /\ reconnectTimers' = reconnectTimers + InitCatchTimers
                          + (IF closeEv THEN CloseHandlerTimers ELSE 0)
    /\ isConnected' = (IF closeEv THEN FALSE ELSE isConnected)
    /\ lastAttempt' = "failed"
    /\ UNCHANGED <<extVars, serverVars, sessionOpen, pollIntervalId, intervalTimers, lastExists, rcConnecting,
                   rcOpening, lockHolder, tickVars, batch, bfIndex, results,
                   registered, discVars, pipeVars, nextId, emitted, lastDelta, raced,
                   ticksSinceChange>>

\* connect() of initializeAccount: mailboxOpen resolves; the watermark is
\* set, polling is started, and fetchLast30Days waits for the mailbox lock.
InitOpenOK ==
    /\ initPc = "open"
    /\ sessionOpen
    /\ initPc' = "bfLock"
    /\ lastExists' = Len(folder)
    /\ pollIntervalId' = startPollingForNewMail(pollIntervalId)
    /\ intervalTimers' = intervalTimers + TimersStarted(pollIntervalId)
    /\ lastAttempt' = "connected"
    /\ UNCHANGED <<extVars, serverVars, sessionOpen, isConnected, reconnectTimers,
                   rcConnecting, rcOpening, lockHolder, tickVars, batch, bfIndex,
                   results, registered, discVars, pipeVars, nextId, emitted, lastDelta,
                   raced, ticksSinceChange>>

\* connect() of initializeAccount: mailboxOpen rejects after isConnected was
\* set; the error leaves initializeAccount.
InitOpenFail ==
    /\ initPc = "open"
    /\ initPc' = "failed"
    /\ reconnectTimers' = reconnectTimers + InitCatchTimers
    /\ lastAttempt' = "failed"
    /\ UNCHANGED <<extVars, serverVars, sessionOpen, isConnected, pollIntervalId, intervalTimers, lastExists,
                   rcConnecting, rcOpening, lockHolder, tickVars, batch, bfIndex,
                   results, registered, discVars, pipeVars, nextId, emitted, lastDelta,
                   raced, ticksSinceChange>>

\* fetchLast30Days: getMailboxLock resolves.
BfLock ==
    /\ initPc = "bfLock"
    /\ lockHolder = NoLock
    /\ lockHolder' = BackfillLock
    /\ initPc' = "bfFetch"
    /\ UNCHANGED <<extVars, serverVars, connVars, tickVars, batch, bfIndex, results,
                   registered, discVars, pipeVars, nextId, emitted, obsVars>>

\* A fetchLast30Days that gives up on the batch at an item without a
\* source, or that does not parse, and returns nothing.
fetchLast30DaysAllOrNothing(uids, since, ok, firstId) ==
    LET got == IF SeqToSet(uids) \cap since \subseteq ok THEN Filter(uids, since) ELSE <<>> IN
    [k \in 1..Len(got) |-> [id |-> firstId + k - 1, uid |-> got[k], category |-> None]]

\* ImapService.fetchLast30Days: the uids the SINCE search matches (since),
\* of which the items that come back with a source and parse (ok) are
\* converted, each under a fresh id, in fetch order.
fetchLast30Days(uids, since, ok, firstId) ==
    LET got == Filter(uids, since \cap ok) IN
    [k \in 1..Len(got) |-> [id |-> firstId + k - 1, uid |-> got[k], category |-> None]]

\* A test of initializeAccount that lets every result through.
RunsBulkPathAlways(emails) == TRUE

\* initializeAccount: categorizeAndIndexEmails is called for the result of
\* fetchLast30Days only if (emails.length > 0).
RunsBulkPath(emails) == Len(emails) > 0

\* fetchLast30Days returns and releases the lock. With e-mails,
\* categorizeAndIndexEmails starts and the first chunk of
\* batchCategorizeEmails is pending; without, the account is registered.
BfFetch(since, ok) ==
    /\ initPc = "bfFetch"
    /\ sessionOpen
    /\ LET emails == fetchLast30Days(folder, since, ok, nextId) IN
        /\ batch' = emails
        /\ nextId' = nextId + Len(emails)
        /\ initPc' = IF RunsBulkPath(emails) THEN "classify" ELSE "done"
        /\ registered' = ~RunsBulkPath(emails)
    /\ bfIndex' = 0
    /\ results' = <<>>
    /\ lockHolder' = LockAfterFetch(lockHolder,
                        IF SeqToSet(folder) \cap since = {} THEN "empty" ELSE "return")
    /\ UNCHANGED <<extVars, serverVars, connVars, tickVars, discVars, pipeVars, emitted,
                   obsVars>>

\* getMailboxLock, the search or the fetch of fetchLast30Days throws: the
\* lock, if taken, is released and the error leaves initializeAccount.
BfFails ==
    /\ initPc \in {"bfLock", "bfFetch"}
    /\ initPc' = "failed"
    /\ lockHolder' = IF initPc = "bfFetch" THEN LockAfterFetch(lockHolder, "throw")
                                         ELSE lockHolder
    /\ UNCHANGED <<extVars, serverVars, connVars, tickVars, batch, bfIndex, results,
                   registered, discVars, pipeVars, nextId, emitted, obsVars>>

\* --------------------------------------------------------------- bulk path
\* Indices of the chunk batch.slice(i, i + batchSize).
Chunk(i) == (i + 1)..Min(i + batchSize, Len(batch))

\* emails.forEach: the category of an e-mail after the merge.
Merged(email, categorizations) ==
    IF email.id \in DOMAIN categorizations
    THEN [email EXCEPT !.category = categorizations[email.id]]
    ELSE email

\* A filter of the Interested e-mails that compares with a category no
\* e-mail has.
InterestedOfNone(emails) == <<>>

\* The ids bulkIndexEmails is given that are classified Interested.
InterestedOf(emails) ==
    Filter([k \in 1..Len(emails) |-> emails[k].id],
           {emails[k].id : k \in {j \in 1..Len(emails) : emails[j].category = INTERESTED}})

\* batchCategorizeEmails: the Promise.all of one chunk resolves (rs: the
\* collaborator's answers); the results are set under the ids. After the
\* last chunk the categories are merged and bulkIndexEmails awaits
\* client.bulk.
BulkClassify(rs) ==
    /\ initPc = "classify"
    /\ LET got == [k \in Chunk(bfIndex) |-> categorizeEmailResult(rs[k], DefaultConfidence)]
           newResults == [id \in DOMAIN results \cup {batch[k].id : k \in Chunk(bfIndex)} |->
                            IF \E k \in Chunk(bfIndex) : batch[k].id = id
                            THEN got[CHOOSE k \in Chunk(bfIndex) : batch[k].id = id].category
                            ELSE results[id]]
           i == bfIndex + batchSize
       IN /\ classFailed' = classFailed \cup {batch[k].id : k \in {j \in Chunk(bfIndex) : got[j].failed}}
          /\ IF \E k \in Chunk(bfIndex) : got[k].threw
             THEN /\ initPc' = "failed"
                  /\ UNCHANGED <<batch, bfIndex, results>>
             ELSE /\ results' = newResults
                  /\ IF i < Len(batch)
                     THEN /\ bfIndex' = i
                          /\ UNCHANGED <<batch, initPc>>
                     ELSE /\ bfIndex' = 0
                          /\ batch' = [k \in 1..Len(batch) |-> Merged(batch[k], newResults)]
                          /\ initPc' = "persist"
    /\ UNCHANGED <<downVars, sideVars, notifyFailed, lastResult, serverVars, connVars, lockHolder, tickVars, registered, discVars,
                   pipeVars, nextId, emitted, obsVars>>

\* After bulkIndexEmails returned: the notification loop starts, or, with
\* no Interested e-mail, the account is registered.
AfterBulkIndex ==
    /\ bfIndex' = 0
    /\ initPc' = IF InterestedOf(batch) = <<>> THEN "done" ELSE "notify"
    /\ registered' = (InterestedOf(batch) = <<>>)

\* The ids a bulk response with errors reports to the caller as failed: it
\* logs one line and returns.
BulkErrorsSurfaced(bad) == {}

\* client.bulk resolves; bad are the items the response marks as failed
\* (result.errors is set when there is one).
BulkPersist(bad) ==
    /\ initPc = "persist"
    /\ bad \subseteq BatchIds
    /\ esIndex' = [id \in DOMAIN esIndex \cup (BatchIds \ bad) |->
                     IF id \in DOMAIN esIndex THEN esIndex[id]
                     ELSE batch[CHOOSE k \in 1..Len(batch) : batch[k].id = id].category]
    /\ esFailed' = esFailed \cup bad
    /\ surfaced' = Bump(surfaced, BulkErrorsSurfaced(bad))
    /\ AfterBulkIndex
    /\ UNCHANGED <<extVars, serverVars, connVars, lockHolder, tickVars, batch, results,
                   discVars, handlers, notified, nextId, emitted, obsVars>>

\* client.bulk rejects: bulkIndexEmails logs and rethrows, and the error
\* leaves categorizeAndIndexEmails and initializeAccount.
BulkPersistThrows ==
    /\ initPc = "persist"
    /\ esFailed' = esFailed \cup BatchIds
    /\ surfaced' = Bump(surfaced, BatchIds)
    /\ initPc' = "failed"
    /\ UNCHANGED <<extVars, serverVars, connVars, lockHolder, tickVars, batch, bfIndex,
                   results, registered, discVars, handlers, esIndex, notified,
                   nextId, emitted, obsVars>>

\* handleInterestedEmail for the next Interested e-mail of the batch
\* returns (it catches the failures of its sinks); after the last one the
\* account is registered.
BulkNotify(sinks) ==
    /\ initPc = "notify"
    /\ LET ids == InterestedOf(batch) IN
        /\ notified' = Bump(notified, {ids[bfIndex + 1]})
        /\ sinkCalls' = WithSinkCalls(sinkCalls, ids[bfIndex + 1], SinksInvoked(sinks))
        /\ notifyFailed' = IF FanoutFailed(sinks)
                           THEN notifyFailed \cup {ids[bfIndex + 1]} ELSE notifyFailed
        /\ IF handleInterestedEmailRejects(sinks)
           THEN /\ initPc' = "failed"
                /\ UNCHANGED <<bfIndex, registered>>
           ELSE /\ bfIndex' = bfIndex + 1
                /\ initPc' = IF bfIndex + 1 < Len(ids) THEN "notify" ELSE "done"
                /\ registered' = ~(bfIndex + 1 < Len(ids))
    /\ UNCHANGED <<tickErrors, exited, sideVars, classFailed, lastResult, serverVars, connVars, lockHolder, tickVars, batch, results,
                   discVars, handlers, esIndex, esFailed, surfaced, nextId, emitted,
                   obsVars>>


\* -------------------------------------------------------- incremental path
\* handleNewEmail: categorizeEmail resolves (it never rejects); the category
\* is merged and indexEmail awaits client.index.
HClassify(h, resp, conf) ==
    /\ h \in handlers
    /\ h.pc = "classify"
    /\ LET r == categorizeEmailResult(resp, conf) IN
        /\ lastResult' = r
        /\ classFailed' = IF r.failed THEN classFailed \cup {h.id} ELSE classFailed
        /\ handlers' = (handlers \ {h})
                       \cup (IF r.threw THEN {}
                             ELSE {[h EXCEPT !.category = r.category, !.pc = "persist"]})
    /\ UNCHANGED <<downVars, sideVars, notifyFailed, serverVars, connVars, lockHolder, tickVars, bulkVars, discVars,
                   esIndex, esFailed, surfaced, notified, nextId, emitted, obsVars>>

\* A test before the notification that looks for the word in the category.
NotifiesForInterestWord(category) == category \in {INTERESTED, NOT_INTERESTED}

\* handleNewEmail: the test before the notification.
NotifiesFor(category) == category = INTERESTED

\* handleNewEmail: client.index resolves; an Interested e-mail goes on to
\* handleInterestedEmail, any other ends the handler.
HPersist(h) ==
    /\ h \in handlers
    /\ h.pc = "persist"
    /\ esIndex' = [id \in DOMAIN esIndex \cup {h.id} |->
                     IF id = h.id THEN h.category ELSE esIndex[id]]
    /\ handlers' = (handlers \ {h})
                   \cup (IF NotifiesFor(h.category) THEN {[h EXCEPT !.pc = "notify"]} ELSE {})
    /\ UNCHANGED <<extVars, serverVars, connVars, lockHolder, tickVars, bulkVars, discVars,
                   esFailed, surfaced, notified, nextId, emitted, obsVars>>

\* A handleNewEmail whose catch logs and rethrows.
handleNewEmailRethrows(failed) == failed

\* handleNewEmail rejects when a step in its try block failed: never, its
\* catch block logs and returns.
handleNewEmailRejects(failed) == FALSE

\* The poll timer once the newEmail listener of initializeAccount has
\* settled: a listener that rejects is an unhandled rejection, which ends
\* the process and its timers.
TimerAfterListener(timer, rejected) == timer /\ ~rejected

\* handleNewEmail going on to the notification after indexEmail threw.
AfterIndexEmailThrowsNotify(h) ==
    IF NotifiesFor(h.category) THEN {[h EXCEPT !.pc = "notify"]} ELSE {}

\* handleNewEmail: what is left to run of the handler once indexEmail has
\* thrown (the catch block logs and the handler ends).
AfterIndexEmailThrows(h) == {}

\* handleNewEmail: client.index rejects; indexEmail logs and rethrows, the
\* catch of handleNewEmail logs, the handler ends without a notification.
HPersistThrows(h) ==
    /\ h \in handlers
    /\ h.pc = "persist"
    /\ esFailed' = esFailed \cup {h.id}
    /\ surfaced' = Bump(surfaced, {h.id})
    /\ handlers' = (handlers \ {h}) \cup AfterIndexEmailThrows(h)
    /\ pollIntervalId' = TimerAfterListener(pollIntervalId, handleNewEmailRejects(TRUE))
    /\ UNCHANGED intervalTimers
    /\ UNCHANGED <<extVars, serverVars, sessionOpen, isConnected, lastExists,
                   reconnectTimers, rcConnecting, rcOpening, lockHolder, tickVars,
                   bulkVars, discVars, esIndex, notified, nextId, emitted, obsVars>>

\* handleNewEmail: handleInterestedEmail returns.
HNotify(h, sinks) ==
    /\ h \in handlers
    /\ h.pc = "notify"
    /\ notified' = Bump(notified, {h.id})
    /\ sinkCalls' = WithSinkCalls(sinkCalls, h.id, SinksInvoked(sinks))
    /\ notifyFailed' = IF FanoutFailed(sinks) THEN notifyFailed \cup {h.id} ELSE notifyFailed
    /\ handlers' = handlers \ {h}
    /\ pollIntervalId' =
          TimerAfterListener(pollIntervalId,
              handleNewEmailRejects(FanoutFailed(sinks) /\ handleInterestedEmailRejects(sinks)))
    /\ UNCHANGED intervalTimers
    /\ UNCHANGED <<tickErrors, exited, sideVars, classFailed, lastResult, serverVars, sessionOpen,
                   isConnected, lastExists, reconnectTimers, rcConnecting, rcOpening,
                   lockHolder, tickVars, bulkVars, discVars, esIndex, esFailed,
                   surfaced, nextId, emitted, obsVars>>

\* A message arrives and the watch loop emits newEmail for it.
NewEmailEvent ==
    /\ Len(emitted) < MaxEvents
    /\ folder' = Append(folder, nextUid)
    /\ nextUid' = nextUid + 1
    /\ lastExists' = Len(folder) + 1
    /\ Emit(<<nextUid>>)
    /\ UNCHANGED <<extVars, sessionOpen, isConnected, pollIntervalId, intervalTimers, reconnectTimers,
                   rcConnecting, rcOpening, lockHolder, tickVars, bulkVars, discVars,
                   esIndex, esFailed, surfaced, notified, obsVars>>

\* ---------------------------------------- batchCategorizeEmails, by chunk
\* A loop that does not await the Promise.all of a chunk.
MayIssueNextAlways(pending) == TRUE

\* The loop of batchCategorizeEmails may issue its next chunk: only when no
\* call of the chunk before is pending, it awaits their Promise.all.
MayIssueNext(pending) == pending = 0

\* The loop index of the next chunk to issue.
NextChunkStart == Len(chunkLog) * batchSize

\* batchCategorizeEmails([]): the loop is not entered, an empty map returns.
ChunkNone ==
    /\ initPc = "classify"
    /\ Len(batch) = 0
    /\ initPc' = "persist"
    /\ UNCHANGED <<downVars, supVars, recatVars, chunkVars, ghostVars, serverVars, connVars,
                   lockHolder, tickVars, batch, bfIndex, results, registered,
                   discVars, pipeVars, nextId, emitted, obsVars>>

\* The loop slices the next chunk and calls categorizeEmail for each e-mail
\* of it.
ChunkIssue ==
    /\ initPc = "classify"
    /\ MayIssueNext(inFlight)
    /\ NextChunkStart < Len(batch)
    /\ chunkLog' = Append(chunkLog, Cardinality(Chunk(NextChunkStart)))
    /\ inFlight' = inFlight + Cardinality(Chunk(NextChunkStart))
    /\ UNCHANGED <<downVars, supVars, recatVars, ghostVars, serverVars, connVars, lockHolder,
                   tickVars, bulkVars, discVars, pipeVars, nextId, emitted, obsVars>>

\* A chunk whose failing call spoils the results of the whole chunk.
batchResultsSpoiled(rs) ==
    [k \in DOMAIN rs |->
        IF \E j \in DOMAIN rs : ClassificationFails(rs[j])
        THEN CategorizeFailure ELSE categorizeEmail(rs[k])]

\* batchCategorizeEmails: batchResults, what Promise.all over
\* batch.map(email => this.categorizeEmail(email)) resolves with, one
\* result per e-mail of the chunk, at the e-mail's position.
batchResults(rs) == [k \in DOMAIN rs |-> categorizeEmail(rs[k])]

\* The Promise.all of the oldest pending chunk resolves: its results are
\* set, and after the last chunk the map is returned and merged.
ChunkReturn(rs) ==
    /\ initPc = "classify"
    /\ inFlight > 0
    /\ LET newResults == [id \in DOMAIN results \cup {batch[k].id : k \in Chunk(bfIndex)} |->
                            IF \E k \in Chunk(bfIndex) : batch[k].id = id
                            THEN batchResults(rs)[CHOOSE k \in Chunk(bfIndex) : batch[k].id = id]
                            ELSE results[id]]
           i == bfIndex + batchSize
       IN /\ results' = newResults
          /\ inFlight' = inFlight - Cardinality(Chunk(bfIndex))
          /\ IF i < Len(batch)
             THEN /\ bfIndex' = i
                  /\ UNCHANGED <<batch, initPc>>
             ELSE /\ bfIndex' = 0
                  /\ batch' = [k \in 1..Len(batch) |-> Merged(batch[k], newResults)]
                  /\ initPc' = "persist"
    /\ UNCHANGED <<downVars, supVars, recatVars, chunkLog, ghostVars, serverVars, connVars,
                   lockHolder, tickVars, registered, discVars, pipeVars, nextId,
                   emitted, obsVars>>

\* ------------------------------------------------------- recategorizeEmail
\* recategorizeEmail has called neither categorizeEmail nor updateEmailCategory.
NoCalls == [classify |-> 0, update |-> 0]

RecatIds == 1..MaxRecatId

\* ElasticsearchService.getEmailById: the document when client.get resolves,
\* null when it rejects (no such document, or any other error).
getEmailById(index, id, getOk) ==
    IF id \in DOMAIN index /\ getOk THEN index[id] ELSE None

\* A recategorizeEmail without its test of the document.
RecatProceedsAlways(email) == TRUE

\* recategorizeEmail goes on after getEmailById: not when the document is
\* null, then it throws 'Email not found'.
RecatProceeds(email) == email # None

\* recategorizeEmail(emailId) is called and getEmailById settles.
RecatStart(id, getOk) ==
    /\ recatPc = "idle"
    /\ recatId' = id
    /\ recatCalls' = NoCalls
    /\ recatCategory' = None
    /\ IF RecatProceeds(getEmailById(esIndex, id, getOk))
       THEN /\ recatPc' = "classify"
            /\ recatResult' = "none"
       ELSE /\ recatPc' = "idle"
            /\ recatResult' = "notFound"
    /\ UNCHANGED <<downVars, supVars, chunkVars, ghostVars, serverVars, connVars, lockHolder,
                   tickVars, bulkVars, discVars, pipeVars, nextId, emitted, obsVars>>

\* recategorizeEmail: categorizeEmail settles; updateEmailCategory awaits
\* client.update.
RecatClassify(resp, conf) ==
    /\ recatPc = "classify"
    /\ LET r == categorizeEmailResult(resp, conf) IN
        /\ lastResult' = r
        /\ recatCalls' = [recatCalls EXCEPT !.classify = 1]
        /\ IF r.threw
           THEN /\ recatPc' = "idle"
                /\ recatResult' = "failed"
                /\ UNCHANGED recatCategory
           ELSE /\ recatPc' = "update"
                /\ recatCategory' = r.category
                /\ UNCHANGED recatResult
    /\ UNCHANGED <<downVars, supVars, recatId, chunkVars, notifyFailed, classFailed, serverVars,
                   connVars, lockHolder, tickVars, bulkVars, discVars, pipeVars,
                   nextId, emitted, obsVars>>

\* recategorizeEmail: client.update settles; only the category is written,
\* and a rejection is logged and rethrown to the caller.
RecatUpdate(ok) ==
    /\ recatPc = "update"
    /\ recatCalls' = [recatCalls EXCEPT !.update = 1]
    /\ recatPc' = "idle"
    /\ IF ok /\ recatId \in DOMAIN esIndex
       THEN /\ esIndex' = [esIndex EXCEPT ![recatId] = recatCategory]
            /\ recatResult' = "ok"
       ELSE /\ recatResult' = "failed"
            /\ UNCHANGED esIndex
    /\ UNCHANGED <<downVars, supVars, recatId, recatCategory, chunkVars, ghostVars, serverVars,
                   connVars, lockHolder, tickVars, bulkVars, discVars, handlers,
                   esFailed, surfaced, notified, nextId, emitted, obsVars>>

\* ------------------------------------------- EmailSyncService, all accounts
\* How initializeAccount ends for one account: it returns (with or without
\* classification calls that failed), or it rejects because connect(),
\* fetchLast30Days() or bulkIndexEmails() rejected.
InitOutcomes == {"ok", "classifyFailed", "connectFailed", "backfillFailed", "persistFailed"}

\* initializeAccount rejects with this outcome.
initializeAccountRejects(outcome) ==
    outcome \in {"connectFailed", "backfillFailed", "persistFailed"}

\* A catch block of initializeAccounts that logs and rethrows.
InitializeAccountsRethrows(outcome) == initializeAccountRejects(outcome)

\* The loop of initializeAccounts is left with an error after this outcome:
\* never, the catch block around initializeAccount logs and goes on.
InitializeAccountsAborts(outcome) == FALSE

\* initializeAccounts(accounts) is called.
SupStart ==
    /\ supPc = "idle"
    /\ supPc' = IF Len(acctState) = 0 THEN "ready" ELSE "init"
    /\ supIdx' = IF Len(acctState) = 0 THEN 0 ELSE 1
    /\ UNCHANGED <<downVars, acctState, imapServices, supThrew, disconnected, recatVars,
                   chunkVars, ghostVars, serverVars, connVars, lockHolder, tickVars,
                   bulkVars, discVars, pipeVars, nextId, emitted, obsVars>>

\* One turn of the loop of initializeAccounts: initializeAccount(account)
\* settles; an account whose initialisation returned is in imapServices.
SupInitAccount(outcome) ==
    /\ supPc = "init"
    /\ acctState' = [acctState EXCEPT ![supIdx] = outcome]
    /\ imapServices' = IF initializeAccountRejects(outcome)
                       THEN imapServices ELSE imapServices \cup {supIdx}
    /\ IF initializeAccountRejects(outcome) /\ InitializeAccountsAborts(outcome)
       THEN /\ supThrew' = TRUE
            /\ supPc' = "ready"
            /\ UNCHANGED supIdx
       ELSE /\ supIdx' = supIdx + 1
            /\ supPc' = IF supIdx < Len(acctState) THEN "init" ELSE "ready"
            /\ UNCHANGED supThrew
    /\ UNCHANGED <<downVars, disconnected, recatVars, chunkVars, ghostVars, serverVars,
                   connVars, lockHolder, tickVars, bulkVars, discVars, pipeVars,
                   nextId, emitted, obsVars>>

\* One turn of the loop of initializeAccounts whose initializeAccount never
\* settles, because a call it awaits (imap.connect, the search or fetch of
\* the backfill, a classification or the bulk write) never returns: the
\* await of the loop never resumes.
SupInitHangs ==
    /\ supPc = "init"
    /\ acctState' = [acctState EXCEPT ![supIdx] = "hung"]
    /\ supPc' = "hung"
    /\ UNCHANGED <<downVars, imapServices, supIdx, supThrew, disconnected, recatVars,
                   chunkVars, ghostVars, serverVars, connVars, lockHolder, tickVars,
                   bulkVars, discVars, pipeVars, nextId, emitted, obsVars>>

\* How the disconnect() of a connection goes: its logout resolves, its
\* logout rejects, or the connection was not connected.
DisconnectOutcomes == {"ok", "logoutFails", "notConnected"}

\* The entries of a Map of accounts, in insertion order.
RECURSIVE Entries(_)
Entries(S) ==
    IF S = {} THEN <<>>
    ELSE LET a == CHOOSE x \in S : \A y \in S : x <= y
         IN <<a>> \o Entries(S \ {a})

\* A shutdown that awaits a disconnect() whose catch rethrows.
DisconnectThrowsOnFailure(outcome) == outcome = "logoutFails"

\* The error of a disconnect() reaches the loop of shutdown: never,
\* disconnect() catches the error of its logout and shutdown does not await it.
DisconnectThrowsIntoLoop(outcome) == FALSE

\* The loop of shutdown over the entries from position k: the connections
\* disconnect() was invoked on, and whether the loop was left with an error.
RECURSIVE ShutdownLoop(_, _, _)
ShutdownLoop(entries, k, outcomes) ==
    IF k > Len(entries) THEN [called |-> {}, threw |-> FALSE]
    ELSE IF DisconnectThrowsIntoLoop(outcomes[entries[k]])
         THEN [called |-> {entries[k]}, threw |-> TRUE]
         ELSE LET rest == ShutdownLoop(entries, k + 1, outcomes)
              IN [called |-> {entries[k]} \cup rest.called, threw |-> rest.threw]

\* EmailSyncService.shutdown(): disconnect() on every entry of the map, then
\* clear(); the server exits the process after it.
Shutdown(outcomes) ==
    /\ supPc \in {"idle", "init", "ready"}
    /\ LET r == ShutdownLoop(Entries(imapServices), 1, outcomes) IN
        /\ disconnected' = [a \in DOMAIN disconnected \cup r.called |->
                              IF a \in r.called THEN outcomes[a] ELSE disconnected[a]]
        /\ supThrew' = r.threw
        /\ imapServices' = IF r.threw THEN imapServices ELSE {}
    /\ supPc' = "down"
    /\ UNCHANGED <<downVars, acctState, supIdx, recatVars, chunkVars, ghostVars, serverVars,
                   connVars, lockHolder, tickVars, bulkVars, discVars, pipeVars,
                   nextId, emitted, obsVars>>

\* OneboxServer.shutdown, run by the SIGINT/SIGTERM handler: it awaits
\* EmailSyncService.shutdown(), which calls disconnect() on the registered
\* connection without awaiting it and clears the map, and then calls
\* process.exit(0). Nothing of the process runs after that.
ServerShutdown ==
    /\ ~exited
    /\ exited' = TRUE
    /\ IF registered
       THEN /\ registered' = FALSE
            /\ disconnectCalled' = TRUE
            /\ pollIntervalId' = FALSE
            /\ intervalTimers' = intervalTimers - TimersCleared(pollIntervalId)
            /\ discPc' = IF isConnected THEN "logout" ELSE discPc
       ELSE UNCHANGED <<registered, disconnectCalled, pollIntervalId, intervalTimers, discPc>>
    /\ UNCHANGED <<sideVars, ghostVars, tickErrors, sinkCalls, serverVars, sessionOpen,
                   isConnected, lastExists, reconnectTimers, rcConnecting, rcOpening,
                   lockHolder, tickVars, initPc, batch, bfIndex, results, pipeVars,
                   nextId, emitted, obsVars>>

\* ----------------------------------------------------------- specifications
\* No categorizeEmail call has returned yet.
NoResult == [threw |-> FALSE, failed |-> FALSE, category |-> None, confidence |-> -1]

\* The supervisor, recategorizeEmail and batchCategorizeEmails at rest.
InitExt ==
    /\ imapServices = {}
    /\ supPc = "idle"
    /\ supIdx = 0
    /\ supThrew = FALSE
    /\ disconnected = <<>>
    /\ recatPc = "idle"
    /\ recatId = 0
    /\ recatCategory = None
    /\ recatCalls = NoCalls
    /\ recatResult = "none"
    /\ chunkLog = <<>>
    /\ inFlight = 0
    /\ notifyFailed = {}
    /\ classFailed = {}
    /\ lastResult = NoResult
    /\ tickErrors = FALSE
    /\ sinkCalls = <<>>
    /\ exited = FALSE

\* The INBOX before the service starts.
InitFolders == {<<>>, <<1>>}

InitCommon ==
    /\ lockHolder = NoLock
    /\ tickPc = [t \in Ticks |-> "idle"]
    /\ tickN = [t \in Ticks |-> 0]
    /\ bfIndex = 0
    /\ results = <<>>
    /\ discPc = "idle"
    /\ disconnectCalled = FALSE
    /\ handlers = {}
    /\ esIndex = <<>>
    /\ esFailed = {}
    /\ surfaced = <<>>
    /\ notified = <<>>
    /\ emitted = <<>>
    /\ lastDelta = "none"
    /\ raced = FALSE
    /\ ticksSinceChange = 0
    /\ lastAttempt = "none"
    /\ reconnectTimers = 0
    /\ rcConnecting = 0
    /\ rcOpening = 0

\* The service is constructed; initializeAccounts has not started the account.
Init ==
    /\ InitCommon
    /\ InitExt
    /\ acctState = <<>>
    /\ folder \in InitFolders
    /\ nextUid = Len(folder) + 1
    /\ sessionOpen = FALSE
    /\ isConnected = FALSE
    /\ pollIntervalId = FALSE
    /\ intervalTimers = 0
    /\ lastExists = 0
    /\ initPc = "start"
    /\ registered = FALSE
    /\ batch = <<>>
    /\ nextId = 1

Next ==
    \/ Arrive(LifeMaxUid)
    \/ ConnClose
    \/ ReconnectTimerFires
    \/ RcConnectOK
    \/ \E closeEv \in BOOLEAN : RcConnectFail(closeEv)
    \/ RcOpenOK
    \/ RcOpenFail
    \/ \E t \in 1..LifeTicks : TickFire(t)
    \/ \E t \in 1..LifeTicks : TickRead(t)
    \/ \E t \in 1..LifeTicks : TickError(t)
    \/ \E t \in 1..LifeTicks : TickLock(t)
    \/ \E t \in 1..LifeTicks : \E ok \in SUBSET Uids : TickFetch(t, ok)
    \/ \E t \in 1..LifeTicks : TickFetchThrows(t)
    \/ Disconnect
    \/ LogoutOK
    \/ LogoutFail
    \/ InitializeAccount
    \/ InitConnectOK
    \/ \E closeEv \in BOOLEAN : InitConnectFail(closeEv)
    \/ InitOpenOK
    \/ InitOpenFail
    \/ BfLock
    \/ \E since \in SUBSET Uids : \E ok \in SUBSET Uids : BfFetch(since, ok)
    \/ BfFails
    \/ \E rs \in [1..MaxUid -> FewResponses] : BulkClassify(rs)
    \/ \E bad \in SUBSET BatchIds : BulkPersist(bad)
    \/ BulkPersistThrows
    \/ \E sinks \in SinkOutcomes : BulkNotify(sinks)

Spec == Init /\ [][Next]_vars

\* Node runs a due timer callback.
Fairness ==
    /\ WF_vars(ReconnectTimerFires)

FairSpec == Spec /\ Fairness

\* The watch loop of a connected, registered account whose backfill is over,
\* within one session.
InitWatch ==
    /\ InitCommon
    /\ InitExt
    /\ acctState = <<>>
    /\ folder \in InitFolders
    /\ nextUid = Len(folder) + 1
    /\ sessionOpen = TRUE
    /\ isConnected = TRUE
    /\ pollIntervalId = TRUE
    /\ intervalTimers = 1
    /\ lastExists = Len(folder)
    /\ initPc = "done"
    /\ registered = TRUE
    /\ batch = <<>>
    /\ nextId = 1

NextWatch ==
    \/ Arrive(MaxUid)
    \/ \E u \in Uids : Delete(u)
    \/ \E t \in Ticks : TickFire(t)
    \/ \E t \in Ticks : TickRead(t)
    \/ \E t \in Ticks : TickError(t)
    \/ \E t \in Ticks : TickLock(t)
    \/ \E t \in Ticks : \E ok \in SUBSET Uids : TickFetch(t, ok)
    \/ \E t \in Ticks : TickFetchThrows(t)

SpecWatch == InitWatch /\ [][NextWatch]_vars

\* The bulk path: fetchLast30Days has returned a batch of 1..MaxBatch
\* e-mails to a connected account.
InitBulk ==
    /\ InitCommon
    /\ InitExt
    /\ acctState = <<>>
    /\ \E n \in 1..MaxBatch :
        /\ folder = [k \in 1..n |-> k]
        /\ batch = [k \in 1..n |-> [id |-> k, uid |-> k, category |-> None]]
        /\ nextUid = n + 1
        /\ nextId = n + 1
        /\ lastExists = n
    /\ sessionOpen = TRUE
    /\ isConnected = TRUE
    /\ pollIntervalId = TRUE
    /\ intervalTimers = 1
    /\ initPc = "classify"
    /\ registered = FALSE

NextBulk ==
    \/ \E rs \in [1..MaxBatch -> Responses] : BulkClassify(rs)
    \/ \E bad \in SUBSET BatchIds : BulkPersist(bad)
    \/ BulkPersistThrows
    \/ \E sinks \in SinkOutcomes : BulkNotify(sinks)

SpecBulk == InitBulk /\ [][NextBulk]_vars

\* The incremental path: the watch loop of a connected, registered account
\* emits e-mails one at a time and handleNewEmail processes them.
NextInc ==
    \/ NewEmailEvent
    \/ \E h \in handlers : \E resp \in Responses : \E conf \in Confidences : HClassify(h, resp, conf)
    \/ \E h \in handlers : HPersist(h)
    \/ \E h \in handlers : HPersistThrows(h)
    \/ \E h \in handlers : \E sinks \in SinkOutcomes : HNotify(h, sinks)

SpecInc == InitWatch /\ [][NextInc]_vars


\* One connection from its first session to its teardown: the connection
\* closes and reconnects, ticks run, and disconnect() is called, once by
\* shutdown and then again.
NextDisc ==
    \/ Arrive(LifeMaxUid)
    \/ ConnClose
    \/ ReconnectTimerFires
    \/ RcConnectOK
    \/ \E closeEv \in BOOLEAN : RcConnectFail(closeEv)
    \/ RcOpenOK
    \/ RcOpenFail
    \/ \E t \in 1..LifeTicks : TickFire(t)
    \/ \E t \in 1..LifeTicks : TickRead(t)
    \/ \E t \in 1..LifeTicks : TickError(t)
    \/ \E t \in 1..LifeTicks : TickLock(t)
    \/ \E t \in 1..LifeTicks : \E ok \in SUBSET Uids : TickFetch(t, ok)
    \/ \E t \in 1..LifeTicks : TickFetchThrows(t)
    \/ Disconnect
    \/ DisconnectAgain
    \/ LogoutOK
    \/ LogoutFail

SpecDisc == InitWatch /\ [][NextDisc]_vars


\* The backfill of a connected account whose INBOX changes before the
\* fetch: the fetch, then the bulk path on what it returned.
InitFetch ==
    /\ InitCommon
    /\ InitExt
    /\ acctState = <<>>
    /\ folder \in InitFolders
    /\ nextUid = Len(folder) + 1
    /\ sessionOpen = TRUE
    /\ isConnected = TRUE
    /\ pollIntervalId = TRUE
    /\ intervalTimers = 1
    /\ lastExists = Len(folder)
    /\ initPc = "bfLock"
    /\ registered = FALSE
    /\ batch = <<>>
    /\ nextId = 1

NextFetch ==
    \/ Arrive(MaxUid)
    \/ \E u \in Uids : Delete(u)
    \/ BfLock
    \/ \E since \in SUBSET Uids : \E ok \in SUBSET Uids : BfFetch(since, ok)
    \/ BfFails
    \/ \E rs \in [1..MaxUid -> FewResponses] : BulkClassify(rs)
    \/ \E bad \in SUBSET BatchIds : BulkPersist(bad)
    \/ BulkPersistThrows
    \/ \E sinks \in FewSinks : BulkNotify(sinks)

SpecFetch == InitFetch /\ [][NextFetch]_vars


\* One connection with one tick at a time, every item of which parses:
\* messages arrive, ticks read the count and fetch, calls fail, and the
\* connection closes and reconnects.
NextDeliver ==
    \/ Arrive(MaxUid)
    \/ ConnClose
    \/ ReconnectTimerFires
    \/ RcConnectOK
    \/ \E closeEv \in BOOLEAN : RcConnectFail(closeEv)
    \/ RcOpenOK
    \/ RcOpenFail
    \/ \E t \in 1..LifeTicks : TickFire(t)
    \/ \E t \in 1..LifeTicks : TickRead(t)
    \/ \E t \in 1..LifeTicks : TickError(t)
    \/ \E t \in 1..LifeTicks : TickLock(t)
    \/ \E t \in 1..LifeTicks : TickFetch(t, Uids)
    \/ \E t \in 1..LifeTicks : TickFetchThrows(t)

SpecDeliver == InitWatch /\ [][NextDeliver]_vars


\* The supervisor: initializeAccounts over a list of 0..MaxAccounts
\* accounts, and shutdown at any moment.
InitSup ==
    /\ InitCommon
    /\ InitExt
    /\ folder = <<>>
    /\ nextUid = 1
    /\ sessionOpen = FALSE
    /\ isConnected = FALSE
    /\ pollIntervalId = FALSE
    /\ intervalTimers = 0
    /\ lastExists = 0
    /\ initPc = "start"
    /\ registered = FALSE
    /\ batch = <<>>
    /\ nextId = 1
    /\ \E n \in 0..MaxAccounts : acctState = [a \in 1..n |-> "todo"]

NextSup ==
    \/ SupStart
    \/ \E outcome \in InitOutcomes : SupInitAccount(outcome)
    \/ \E outcomes \in [1..MaxAccounts -> DisconnectOutcomes] : Shutdown(outcomes)

SpecSup == InitSup /\ [][NextSup]_vars

\* initializeAccounts when a call made for an account may never return;
\* a turn of the loop that can run does run.
NextHang ==
    \/ SupStart
    \/ \E outcome \in InitOutcomes : SupInitAccount(outcome)
    \/ SupInitHangs

SpecHang ==
    /\ InitSup
    /\ [][NextHang]_vars
    /\ WF_vars(SupStart)
    /\ WF_vars(\E outcome \in InitOutcomes : SupInitAccount(outcome))


\* Answers drawn where both paths run: a failing call, Interested and a
\* category that is neither.
PipeResponses ==
    FewResponses \cup {[kind |-> "text", category |-> RawNotInterested]}

\* Both paths and recategorizeEmail side by side: the bulk path on a batch
\* of 1..PipeBatch e-mails, newEmail events and their handlers, and
\* recategorizeEmail called at any moment.
InitPipe ==
    /\ InitBulk
    /\ Len(batch) <= PipeBatch

NextPipe ==
    \/ \E rs \in [1..PipeBatch -> PipeResponses] : BulkClassify(rs)
    \/ \E bad \in SUBSET BatchIds : BulkPersist(bad)
    \/ BulkPersistThrows
    \/ \E sinks \in FewSinks : BulkNotify(sinks)
    \/ Len(emitted) < PipeEvents /\ NewEmailEvent
    \/ \E h \in handlers : \E resp \in PipeResponses : HClassify(h, resp, 9)
    \/ \E h \in handlers : HPersist(h)
    \/ \E h \in handlers : HPersistThrows(h)
    \/ \E h \in handlers : \E sinks \in FewSinks : HNotify(h, sinks)
    \/ \E id \in RecatIds : \E getOk \in BOOLEAN : RecatStart(id, getOk)
    \/ \E resp \in PipeResponses : RecatClassify(resp, 9)
    \/ \E ok \in BOOLEAN : RecatUpdate(ok)

SpecPipe == InitPipe /\ [][NextPipe]_vars


\* The watch loop of one session feeding handleNewEmail: messages arrive,
\* ticks emit them and the handlers classify, persist and notify.
NextLoop ==
    \/ Arrive(LoopMaxUid)
    \/ \E t \in 1..LifeTicks : TickFire(t)
    \/ \E t \in 1..LifeTicks : TickRead(t)
    \/ \E t \in 1..LifeTicks : TickError(t)
    \/ \E t \in 1..LifeTicks : TickLock(t)
    \/ \E t \in 1..LifeTicks : \E ok \in SUBSET Uids : TickFetch(t, ok)
    \/ \E t \in 1..LifeTicks : TickFetchThrows(t)
    \/ \E h \in handlers : \E resp \in FewResponses : HClassify(h, resp, 9)
    \/ \E h \in handlers : HPersist(h)
    \/ \E h \in handlers : HPersistThrows(h)
    \/ \E h \in handlers : \E sinks \in FewSinks : HNotify(h, sinks)

SpecLoop == InitWatch /\ [][NextLoop]_vars


\* The watch loop and its handlers until the server is shut down.
NextExit ==
    \/ ~exited /\ Arrive(LoopMaxUid)
    \/ \E t \in 1..LifeTicks : ~exited /\ TickFire(t)
    \/ \E t \in 1..LifeTicks : ~exited /\ TickRead(t)
    \/ \E t \in 1..LifeTicks : ~exited /\ TickError(t)
    \/ \E t \in 1..LifeTicks : ~exited /\ TickLock(t)
    \/ \E t \in 1..LifeTicks : \E ok \in SUBSET Uids : ~exited /\ TickFetch(t, ok)
    \/ \E t \in 1..LifeTicks : ~exited /\ TickFetchThrows(t)
    \/ \E h \in handlers : \E resp \in FewResponses : ~exited /\ HClassify(h, resp, 9)
    \/ \E h \in handlers : ~exited /\ HPersist(h)
    \/ \E h \in handlers : ~exited /\ HPersistThrows(h)
    \/ \E h \in handlers : \E sinks \in FewSinks : ~exited /\ HNotify(h, sinks)
    \/ ServerShutdown

SpecExit == InitWatch /\ [][NextExit]_vars


\* batchCategorizeEmails on 0..MaxChunkBatch e-mails, chunk by chunk.
InitChunk ==
    /\ InitCommon
    /\ InitExt
    /\ acctState = <<>>
    /\ \E n \in 0..MaxChunkBatch :
        /\ folder = [k \in 1..n |-> k]
        /\ batch = [k \in 1..n |-> [id |-> k, uid |-> k, category |-> None]]
        /\ nextUid = n + 1
        /\ nextId = n + 1
        /\ lastExists = n
    /\ sessionOpen = TRUE
    /\ isConnected = TRUE
    /\ pollIntervalId = TRUE
    /\ intervalTimers = 1
    /\ initPc = "classify"
    /\ registered = FALSE

NextChunk ==
    \/ ChunkNone
    \/ ChunkIssue
    \/ \E rs \in [Chunk(bfIndex) -> FewResponses] : ChunkReturn(rs)

SpecChunk == InitChunk /\ [][NextChunk]_vars


\* ------------------------------------------------------------------ claims
\* C1: no newEmail event is emitted, and no message enters the incremental
\* path, before the account's backfill has been fetched, classified and
\* bulk-persisted.
C1_BackfillBeforeIncremental ==
    (emitted # <<>> \/ handlers # {}) => initPc = "done"

\* C2: once disconnect() has been called, no watch tick starts executing
\* and no reconnect attempt is started for the connection.
C2_QuietAfterDisconnect ==
    [][disconnectCalled =>
        /\ \A t \in Ticks : ~(tickPc[t] = "idle" /\ tickPc'[t] = "open")
        /\ rcConnecting' <= rcConnecting
        /\ (pollIntervalId' => pollIntervalId)]_vars

\* C3: after a close event the connection, left Disconnected with a backoff
\* timer, enters Connecting by itself; and when a reconnect's connect()
\* succeeds the connection is connected with its watch loop scheduled and
\* the watermark at the folder's count, so ticks run and detect increases.
Disconnected == ~isConnected /\ reconnectTimers > 0
Connecting == rcConnecting > 0
C3_ReconnectsAndResumes ==
    /\ Disconnected ~> Connecting
    /\ [][RcOpenOK => (isConnected' /\ pollIntervalId' /\ lastExists' = Len(folder'))]_vars

\* C3 witness: the initial connect had succeeded, the connection was closed
\* and reconnected, and a tick of the resumed loop detected an increase.
C3_Witness ==
    /\ lastAttempt = "reconnected"
    /\ initPc \notin {"start", "connect", "failed"}
    /\ ~disconnectCalled
    /\ \E t \in Ticks : tickPc[t] = "lock" /\ tickN[t] > 0

\* C4: whenever the last connection attempt failed, another attempt is
\* scheduled or in progress.
C4_RetryAfterEveryFailure ==
    lastAttempt = "failed" => Pending > 0

\* C5: a tick that reads the folder's count leaves the watermark equal to
\* the count it read, whether the count rose, stayed or fell.
C5_WatermarkIsCountRead ==
    [][\A t \in Ticks : TickRead(t) => lastExists' = Len(folder)]_vars

\* C5 witness: a tick has just read a count below the watermark it found,
\* and the watermark is that lower count.
C5_Witness ==
    /\ lastDelta = "fell"
    /\ ticksSinceChange >= 1
    /\ lastExists = Len(folder)

\* C6: over consecutive ticks that find the folder's count unchanged, the
\* watermark stays at the count the first of them saw, and a tick that reads
\* the count it was last left with emits nothing and starts no fetch.
C6_QuietTicks ==
    /\ [](ticksSinceChange >= 1 => lastExists = Len(folder))
    /\ [][\A t \in Ticks : (TickRead(t) /\ Len(folder) = lastExists) =>
            /\ lastExists' = lastExists
            /\ emitted' = emitted
            /\ handlers' = handlers
            /\ tickPc'[t] = "idle"]_vars

\* C6 witness: two ticks in a row have read an unchanged count.
C6_Witness ==
    /\ ticksSinceChange = 2
    /\ lastDelta = "same"
    /\ lastExists = Len(folder)
    /\ Len(folder) > 0

\* The e-mails a step emits.
NewlyEmitted == SubSeq(emitted', Len(emitted) + 1, Len(emitted'))
\* Tick t ends its delta fetch in this step.
FetchEnds(t) == tickPc[t] = "fetch" /\ tickPc'[t] = "idle"

\* C7 as claimed: a tick that read a count above the watermark emits exactly
\* count - watermark newEmail events.
C7_EmitsExactlyDelta ==
    [][\A t \in Ticks : FetchEnds(t) => Len(emitted') = Len(emitted) + tickN[t]]_vars

\* C7 amended: the tick emits one newEmail event per item fetched and parsed
\* among the count - watermark most recent items the search lists, in fetch
\* order, starting one handler per event; never more than count - watermark,
\* and exactly that many when the folder still holds that many items and all
\* of them are fetched and parsed.
C7_EmitsFetchedOfDelta ==
    [][\A t \in Ticks : FetchEnds(t) =>
        LET want == SliceLast(folder, tickN[t]) IN
        /\ Len(emitted') >= Len(emitted)
        /\ Len(NewlyEmitted) <= tickN[t]
        /\ NewlyEmitted = Filter(want, SeqToSet(NewlyEmitted))
        /\ Cardinality(handlers') = Cardinality(handlers) + Len(NewlyEmitted)
        /\ \A ok \in SUBSET Uids :
             (TickFetch(t, ok) /\ SeqToSet(want) \subseteq ok /\ Len(folder) >= tickN[t])
                => (NewlyEmitted = want /\ Len(NewlyEmitted) = tickN[t])]_vars

\* C7 witness: a tick that detected two new items has emitted both.
C7_Witness ==
    /\ Len(emitted) >= 2
    /\ emitted[1] # emitted[2]
    /\ lastDelta = "rose"
    /\ ~raced

\* C8 as claimed: the watch loop never emits the same mail item twice.
C8_NoDuplicateEmission ==
    \A u \in Uids : Occurrences(emitted, u) <= 1

\* C8 amended: the watch loop never emits the same mail item twice as long
\* as no message arrives or is deleted between a tick's count read and the
\* search of the fetch that follows it.
C8_NoDuplicateWithoutRace ==
    ~raced => C8_NoDuplicateEmission

\* C8 witness: two ticks have emitted without such a race, after a deletion.
C8_Witness ==
    /\ ~raced
    /\ Len(emitted) >= 2
    /\ Len(folder) < nextUid - 1

\* C9: once the categories are merged, and so after the bulk path has
\* completed, every message of the backfill batch has one of the enumerated
\* categories, whatever the classification calls did.
C9_BackfillCategorized ==
    initPc \in {"persist", "notify", "done", "failed"} =>
        /\ \A k \in 1..Len(batch) : batch[k].category \in EmailCategory
        /\ \A id \in DOMAIN esIndex : esIndex[id] \in EmailCategory

\* C9 witness: the bulk path has completed for a batch in which one
\* classification fell back and another did not.
C9_Witness ==
    /\ initPc = "done"
    /\ \E k \in 1..Len(batch) : batch[k].category = UNCATEGORIZED
    /\ \E k \in 1..Len(batch) : batch[k].category = INTERESTED
    /\ \A k \in 1..Len(batch) : batch[k].id \in DOMAIN esIndex

\* C10: every message whose persist failed has had that failure reported to
\* the pipeline exactly once.
C10_FailureReportedOnce ==
    \A id \in esFailed : Count(surfaced, id) = 1

\* C11: initializeAccounts attempts every account of its list: a failure
\* while initialising one account never keeps the loop from the accounts
\* after it, and initializeAccounts does not throw.
C11_InitIsolatesAccounts ==
    supPc \in {"init", "ready"} =>
        /\ ~supThrew
        /\ \A a \in 1..Len(acctState) :
            (supPc = "ready" \/ a < supIdx) => acctState[a] # "todo"

\* C11 witness: the loop is over, the first account failed to connect, a
\* later one failed to persist, and the last one was initialised.
C11_Witness ==
    /\ supPc = "ready"
    /\ Len(acctState) >= 3
    /\ acctState[1] = "connectFailed"
    /\ acctState[2] = "persistFailed"
    /\ acctState[Len(acctState)] = "ok"
    /\ Len(acctState) \in imapServices

\* C12: shutdown invokes disconnect() on every connection of the map, also
\* when the disconnect of another connection fails, and does not throw.
C12_ShutdownDisconnectsAll ==
    [][(supPc # "down" /\ supPc' = "down") =>
          /\ imapServices \subseteq DOMAIN disconnected'
          /\ ~supThrew'
          /\ imapServices' = {}]_vars

\* C12 witness: shutdown has run over two connections and the logout of
\* the first of them failed.
C12_Witness ==
    /\ supPc = "down"
    /\ \E a, b \in DOMAIN disconnected :
        a < b /\ disconnected[a] = "logoutFails" /\ disconnected[b] = "ok"

\* C13: categorizeEmail never propagates an error: when the call of the
\* classification collaborator fails, or its answer cannot be interpreted,
\* it returns the sentinel, category Uncategorized with confidence 0.
C13_ClassifyNeverThrows ==
    [][\A h \in handlers : \A resp \in Responses : \A conf \in Confidences :
          HClassify(h, resp, conf) =>
              /\ ~lastResult'.threw
              /\ resp.kind \in {"throw", "missing"} =>
                    /\ lastResult'.category = UNCATEGORIZED
                    /\ lastResult'.confidence = 0]_vars

\* C13 witness: a classification call has failed, the sentinel came back
\* and the handler of that e-mail has gone on with it.
C13_Witness ==
    /\ lastResult = [threw |-> FALSE, failed |-> TRUE,
                     category |-> UNCATEGORIZED, confidence |-> 0]
    /\ \E h \in handlers : h.id \in classFailed /\ h.pc = "persist"

\* The e-mail of the backfill batch with this id has this merged category.
BatchHas(id, category) ==
    \E k \in 1..Len(batch) : batch[k].id = id /\ batch[k].category = category

\* The persist call for this e-mail is still to come, with this category.
PersistPending(id, category) ==
    \/ \E h \in handlers : h.id = id /\ h.pc = "persist" /\ h.category = category
    \/ /\ id \in BatchIds
       /\ \/ initPc = "classify"
          \/ initPc = "persist" /\ BatchHas(id, category)

\* C14: an e-mail whose classification failed still goes to the persist
\* call, on the incremental and on the bulk path, and what is stored for it
\* has category Uncategorized.
C14_FailedClassificationPersists ==
    /\ [](\A id \in classFailed :
            \/ PersistPending(id, UNCATEGORIZED)
            \/ id \in DOMAIN esIndex
            \/ id \in esFailed)
    /\ [][\A id \in classFailed' :
            id \in (DOMAIN esIndex') \ (DOMAIN esIndex) => esIndex'[id] = UNCATEGORIZED]_vars

\* C14 witness: an e-mail of the batch and an emitted e-mail both failed to
\* classify and both are stored as Uncategorized.
C14_Witness ==
    /\ \E id \in classFailed \cap BatchIds :
        id \in DOMAIN esIndex /\ esIndex[id] = UNCATEGORIZED
    /\ \E id \in classFailed \ BatchIds :
        id \in DOMAIN esIndex /\ esIndex[id] = UNCATEGORIZED

\* The handler of this e-mail, whose merged category is Interested, ends
\* with this step.
InterestedHandlerEnds(h) ==
    /\ h \in handlers
    /\ h.category = INTERESTED
    /\ ~\E g \in handlers' : g.id = h.id

\* What is stored for an e-mail by this step is its merged category.
StoresMergedCategory ==
    \A id \in (DOMAIN esIndex') \ (DOMAIN esIndex) :
        \/ \E h \in handlers : h.id = id /\ h.category = esIndex'[id]
        \/ BatchHas(id, esIndex'[id])

\* C16 as stated: every e-mail classified Interested is stored as
\* Interested and exactly one notification fan-out is issued for it, on
\* both paths.
C16_InterestedNotifiedOnce ==
    [][/\ \A h \in handlers :
            InterestedHandlerEnds(h) =>
                /\ h.id \in DOMAIN esIndex'
                /\ Count(notified', h.id) = 1
       /\ initPc' \in {"done", "failed"} =>
            \A id \in BatchIds :
                BatchHas(id, INTERESTED)' =>
                    id \in DOMAIN esIndex' /\ Count(notified', id) = 1
       /\ \A id \in DOMAIN notified' : notified'[id] <= 1
       /\ StoresMergedCategory]_vars

\* C16 as the code has it: an Interested e-mail whose persist call returns
\* gets exactly one fan-out and, when the store took it, is stored as
\* Interested; when the persist call throws, no fan-out is issued for it
\* (on the bulk path, for no e-mail of the batch). Never two fan-outs.
C16_InterestedNotifiedOnceIfPersistReturns ==
    [][/\ \A h \in handlers :
            InterestedHandlerEnds(h) =>
                \/ h.id \in DOMAIN esIndex' /\ Count(notified', h.id) = 1
                \/ h.id \in esFailed' /\ Count(notified', h.id) = 0
       /\ initPc' = "done" =>
            \A id \in BatchIds :
                BatchHas(id, INTERESTED)' =>
                    /\ Count(notified', id) = 1
                    /\ id \in DOMAIN esIndex' \/ id \in esFailed'
       /\ initPc' = "failed" =>
            \A id \in BatchIds : Count(notified', id) = 0 /\ id \in esFailed'
       /\ \A id \in DOMAIN notified' : notified'[id] <= 1
       /\ StoresMergedCategory]_vars

\* C16 witness: an Interested e-mail of the batch and an Interested emitted
\* e-mail are both stored as Interested with one fan-out each.
C16_Witness ==
    /\ initPc = "done"
    /\ handlers = {}
    /\ \E id \in BatchIds :
        BatchHas(id, INTERESTED) /\ id \in DOMAIN esIndex /\ Count(notified, id) = 1
    /\ \E id \in (DOMAIN esIndex) \ BatchIds :
        esIndex[id] = INTERESTED /\ Count(notified, id) = 1

\* C17: a notification fan-out is issued for an e-mail only when its merged
\* category is Interested; no step of either path or of recategorizeEmail
\* issues one for an e-mail of another category.
C17_NotifiesOnlyInterested ==
    [][\A id \in DOMAIN notified' :
          Count(notified', id) > Count(notified, id) =>
              \/ \E h \in handlers : h.id = id /\ h.category = INTERESTED
              \/ initPc = "notify" /\ BatchHas(id, INTERESTED)]_vars

\* C17 witness: an e-mail whose classification had failed was recategorized
\* to Interested with no fan-out, while another e-mail got its fan-out.
C17_Witness ==
    /\ recatResult = "ok"
    /\ recatId \in classFailed
    /\ esIndex[recatId] = INTERESTED
    /\ Count(notified, recatId) = 0
    /\ \E id \in DOMAIN notified : notified[id] = 1

\* C18 as stated: on the bulk path a fan-out is invoked for every e-mail of
\* the batch classified Interested.
C18_BulkNotifiesEveryInterested ==
    initPc \in {"done", "failed"} =>
        \A id \in BatchIds : BatchHas(id, INTERESTED) => Count(notified, id) >= 1

\* C18 as the code has it: once bulkIndexEmails has returned, a fan-out is
\* invoked for every Interested e-mail of the batch, whatever the fan-outs
\* before it did; when bulkIndexEmails throws, none is invoked.
C18_BulkNotifiesEveryInterestedAfterPersist ==
    /\ initPc = "done" =>
        \A id \in BatchIds : BatchHas(id, INTERESTED) => Count(notified, id) >= 1
    /\ initPc = "failed" => \A id \in BatchIds : Count(notified, id) = 0

\* C18 witness: the fan-out of the first Interested e-mail failed and the
\* one after it was still invoked.
C18_Witness ==
    /\ initPc = "done"
    /\ \E a, b \in BatchIds :
        /\ a < b
        /\ BatchHas(a, INTERESTED) /\ BatchHas(b, INTERESTED)
        /\ a \in notifyFailed
        /\ Count(notified, b) = 1

\* C19: recategorizeEmail for an id with no document ends with 'Email not
\* found' and calls neither categorizeEmail nor updateEmailCategory.
C19_RecategorizeMissingId ==
    /\ [](recatResult = "notFound" => recatPc = "idle" /\ recatCalls = NoCalls)
    /\ [][\A id \in RecatIds : \A getOk \in BOOLEAN :
            (RecatStart(id, getOk) /\ id \notin DOMAIN esIndex) =>
                /\ recatResult' = "notFound"
                /\ recatPc' = "idle"
                /\ recatCalls' = NoCalls
                /\ esIndex' = esIndex
                /\ lastResult' = lastResult]_vars

\* C19 witness: recategorizeEmail has ended with 'Email not found' for an id
\* that is not in an index that holds other documents.
C19_Witness ==
    /\ recatResult = "notFound"
    /\ recatId \notin DOMAIN esIndex
    /\ DOMAIN esIndex # {}
    /\ recatCalls = NoCalls

\* C15: a failure of the persist call or of the notification for one
\* e-mail leaves the watch loop running, with its timer set, its ticks in
\* flight and the other handlers untouched, and every e-mail emitted has a
\* handler that classifies it and hands it to the persist call.
C15_FailuresKeepLoopRunning ==
    /\ [](pollIntervalId /\ isConnected)
    /\ [](\A id \in 1..(nextId - 1) :
            \/ \E h \in handlers : h.id = id /\ h.pc \in {"classify", "persist", "notify"}
            \/ id \in DOMAIN esIndex
            \/ id \in esFailed)
    /\ [][(esFailed' # esFailed \/ notifyFailed' # notifyFailed) =>
            /\ tickPc' = tickPc
            /\ lockHolder' = lockHolder
            /\ \A g \in handlers :
                g.id \notin (esFailed' \ esFailed) \cup (notifyFailed' \ notifyFailed)
                    => g \in handlers']_vars

\* C15 witness: the persist call of one e-mail failed, and an e-mail emitted
\* by a later tick was classified and stored.
C15_Witness ==
    /\ pollIntervalId
    /\ \E a \in esFailed : \E b \in DOMAIN esIndex :
        /\ a < b
        /\ Len(emitted) >= 2
        /\ emitted[1] # emitted[2]
    /\ notifyFailed # {}

\* The sum of the chunk sizes issued.
RECURSIVE SumOf(_)
SumOf(sizes) == IF sizes = <<>> THEN 0 ELSE Head(sizes) + SumOf(Tail(sizes))

\* ceil(n / 5).
CeilFifth(n) == (n + 4) \div 5

\* C20: batchCategorizeEmails on n e-mails issues ceil(n/5) chunks of at
\* most 5 e-mails, each only after the chunk before it has returned, and
\* the map it returns holds the id of every e-mail (12 e-mails: 3 chunks).
C20_ChunksOfFive ==
    /\ inFlight <= 5
    /\ \A c \in 1..Len(chunkLog) : chunkLog[c] \in 1..5
    /\ Len(chunkLog) <= CeilFifth(Len(batch))
    /\ inFlight > 0 => DOMAIN results = 1..(SumOf(chunkLog) - inFlight)
    /\ initPc = "persist" =>
        /\ Len(chunkLog) = CeilFifth(Len(batch))
        /\ SumOf(chunkLog) = Len(batch)
        /\ DOMAIN results = BatchIds
        /\ inFlight = 0

\* C20 witness: 12 e-mails went out as chunks of 5, 5 and 2 and the map
\* holds 12 ids.
C20_Witness ==
    /\ initPc = "persist"
    /\ Len(batch) = 12
    /\ chunkLog = <<5, 5, 2>>
    /\ Cardinality(DOMAIN results) = 12

\* C21: when the date-bounded search of the backfill matches no message,
\* fetchLast30Days returns the empty sequence and initializeAccount goes
\* straight to registering the account: with an empty result the bulk path
\* is never waiting for a classification, a persist or a notification call,
\* and nothing is classified, stored or notified.
C21_EmptyBackfillSkipsBulk ==
    /\ [][\A since \in SUBSET Uids : \A ok \in SUBSET Uids :
            (BfFetch(since, ok) /\ SeqToSet(folder) \cap since = {}) =>
                /\ batch' = <<>>
                /\ initPc' = "done"
                /\ registered']_vars
    /\ [](batch = <<>> =>
            /\ initPc \notin {"classify", "persist", "notify"}
            /\ results = <<>> /\ classFailed = {}
            /\ esIndex = <<>> /\ esFailed = {} /\ surfaced = <<>>
            /\ notified = <<>> /\ notifyFailed = {})

\* C21 witness: the INBOX holds two messages, the search matched none of
\* them, and the account is registered with an empty batch.
C21_Witness ==
    /\ initPc = "done"
    /\ registered
    /\ batch = <<>>
    /\ Len(folder) = 2
    /\ nextId = 1
    /\ lockHolder = NoLock

\* C22: an error raised inside a watch tick, while it re-reads the count
\* or fetches the delta, ends that tick only: the poll interval stays set,
\* so later ticks run, and the connection is neither marked disconnected
\* nor given a reconnect timer or a reconnect attempt. Within a session the
\* loop is therefore never stopped and no reconnect cycle is ever started.
C22_TickErrorsStayInTick ==
    /\ [][\A t \in Ticks :
            (TickError(t) \/ TickFetchThrows(t)) =>
                /\ tickPc'[t] = "idle"
                /\ pollIntervalId' = pollIntervalId
                /\ isConnected' = isConnected
                /\ reconnectTimers' = reconnectTimers
                /\ rcConnecting' = rcConnecting]_vars
    /\ [](pollIntervalId /\ isConnected /\ Pending = 0)

\* C22 witness: a tick has caught an error and a later tick has detected
\* a new message and is fetching it.
C22_Witness ==
    /\ tickErrors
    /\ \A t \in Ticks : tickPc[t] \in {"idle", "fetch"}
    /\ \E t \in Ticks : tickPc[t] = "fetch" /\ tickN[t] = 1
    /\ emitted = <<>>
    /\ pollIntervalId

\* C23: disconnect() called again after an earlier disconnect() has
\* returned changes nothing: no interval is there to clear, the session
\* stays as it is and no logout is issued.
C23_DisconnectIdempotent ==
    [][DisconnectAgain =>
          /\ discPc' = "idle"
          /\ pollIntervalId' = pollIntervalId
          /\ sessionOpen' = sessionOpen
          /\ isConnected' = isConnected]_vars

\* Position of uid u in the folder s.
IndexOf(s, u) == CHOOSE k \in 1..Len(s) : s[k] = u

\* C24: in fetchLast30Days an item whose source is missing or does not
\* parse is skipped and the others are kept: the sequence returned holds
\* exactly the matched items that parsed, once each, in the order of the
\* folder, and the call does not fail.
C24_BadItemsSkipped ==
    [][\A since \in SUBSET Uids : \A ok \in SUBSET Uids :
          BfFetch(since, ok) =>
              LET want == SeqToSet(folder) \cap since \cap ok IN
              /\ {batch'[k].uid : k \in 1..Len(batch')} = want
              /\ Len(batch') = Cardinality(want)
              /\ \A i, j \in 1..Len(batch') :
                    i < j => IndexOf(folder, batch'[i].uid) < IndexOf(folder, batch'[j].uid)
              /\ initPc' # "failed"]_vars

\* C24 witness: of three messages in the INBOX the search matched all, the
\* second did not parse, and the other two were returned in order.
C24_Witness ==
    /\ Len(folder) = 3
    /\ Len(batch) = 2
    /\ batch[1].uid = folder[1]
    /\ batch[2].uid = folder[3]
    /\ initPc = "classify"

\* C25: for every message handed to handleInterestedEmail the chat sink
\* and the webhook sink are each called exactly once, also when the other
\* sink fails, and a failing sink does not make the fan-out throw: the bulk
\* path goes on with its loop and the listener of the incremental path
\* does not reject.
C25_EachSinkOnceNoPropagation ==
    /\ [](/\ DOMAIN sinkCalls = DOMAIN notified
          /\ \A id \in DOMAIN notified :
                sinkCalls[id] = [slack |-> 1, webhook |-> 1])
    /\ [][\A sinks \in SinkOutcomes :
            /\ BulkNotify(sinks) => initPc' \in {"notify", "done"}
            /\ \A h \in handlers : HNotify(h, sinks) => pollIntervalId' = pollIntervalId]_vars

\* C25 witness: the chat sink failed for a message of the backfill and for
\* a message of the watch loop; both sinks were called once for each, and
\* the bulk path went on to register the account.
C25_Witness ==
    /\ initPc = "done"
    /\ \E a \in notifyFailed \cap BatchIds : sinkCalls[a] = [slack |-> 1, webhook |-> 1]
    /\ \E b \in notifyFailed \ BatchIds : sinkCalls[b] = [slack |-> 1, webhook |-> 1]

\* Watch ticks that have started and not yet ended.
TicksInProgress == {t \in Ticks : tickPc[t] # "idle"}

\* C26: the connect/poll/fetch sequence of a connection never overlaps
\* itself: at most one watch tick is in progress at a time, and none is in
\* progress while the connection's connect, backfill fetch or reconnect is.
C26_NoSelfOverlap ==
    /\ Cardinality(TicksInProgress) <= 1
    /\ TicksInProgress # {} =>
          /\ initPc \notin {"connect", "open", "bfLock", "bfFetch"}
          /\ rcConnecting = 0
          /\ rcOpening = 0

\* C27: when a call made for one account never returns, every other
\* account of the list is still initialised.
C27_HangLeavesOthersRunning ==
    (supPc = "hung") ~> (\A b \in DOMAIN acctState : acctState[b] # "todo")

\* C28: the e-mails a connection emits go through classify, persist and
\* notify one at a time and in the order of their emission: at most one
\* handleNewEmail is in flight, and an e-mail is written to the index only
\* when no e-mail emitted before it is still waiting to be classified or
\* written.
C28_OneAtATimeInOrder ==
    /\ [](Cardinality(handlers) <= 1)
    /\ [][\A h \in handlers :
            (h.pc = "persist" /\ h.id \notin DOMAIN esIndex /\ h.id \in DOMAIN esIndex') =>
                ~\E g \in handlers : g.id < h.id /\ g.pc \in {"classify", "persist"}]_vars

\* C29: shutdown interrupts no operation in flight: when the process has
\* exited, no handleNewEmail was left waiting for its classification,
\* persist or notification call and no watch tick was left in the middle
\* of its read or fetch.
C29_ShutdownLetsOperationsFinish ==
    exited => (handlers = {} /\ \A t \in Ticks : tickPc[t] = "idle")

\* C30: when shutdown() has returned, the connection that was in the map
\* is disconnected: its interval is cleared, its logout has completed and
\* its session is closed.
C30_ShutdownLeavesDisconnected ==
    [][Disconnect =>
          /\ ~pollIntervalId'
          /\ discPc' = "idle"
          /\ ~isConnected'
          /\ ~sessionOpen']_vars

\* C31: in batchCategorizeEmails a classification that fails gives the
\* sentinel to its own e-mail only: when a chunk returns, every e-mail of
\* it is in the map under its own id with the result of its own call, the
\* entries of the chunks before are left as they were, and after the last
\* chunk every e-mail carries the category of its own entry.
C31_FailureStaysWithItsMessage ==
    [][\A rs \in [Chunk(bfIndex) -> FewResponses] :
          ChunkReturn(rs) =>
              /\ \A k \in Chunk(bfIndex) :
                    /\ batch[k].id \in DOMAIN results'
                    /\ results'[batch[k].id] =
                          IF ClassificationFails(rs[k]) THEN UNCATEGORIZED
                          ELSE mapToEmailCategory(rs[k].category)
              /\ \A id \in DOMAIN results : id \in DOMAIN results' /\ results'[id] = results[id]
              /\ initPc' = "persist" =>
                    \A k \in 1..Len(batch) : batch'[k].category = results'[batch[k].id]]_vars

\* C31 witness: of seven e-mails the call for the first failed and the
\* calls for the others, in the same chunk and in the next, did not; the
\* first is Uncategorized and the others are Interested.
C31_Witness ==
    /\ initPc = "persist"
    /\ Len(batch) = 7
    /\ batch[1].category = UNCATEGORIZED
    /\ \A k \in 2..7 : batch[k].category = INTERESTED
    /\ chunkLog = <<5, 2>>

\* Uids no folder holds when the service starts: a message with one of
\* them arrived while the service was running.
ArrivingUids == Uids \ UNION {SeqToSet(f) : f \in InitFolders}

\* The watch loop has caught up: the connection is up with its interval
\* set, no tick and no reconnect is in progress, and the watermark is the
\* count of the folder, so no tick will fetch anything until the count grows.
CaughtUp ==
    /\ isConnected /\ sessionOpen /\ pollIntervalId
    /\ Pending = 0
    /\ \A t \in Ticks : tickPc[t] = "idle"
    /\ lastExists = Len(folder)

\* C32: a message that arrived and is still in the folder is emitted at
\* least once, also after a failed fetch and after a reconnect: whenever
\* the watch loop has caught up with the folder, every such message has
\* been emitted.
C32_ArrivalsEmitted ==
    CaughtUp => \A u \in ArrivingUids \cap SeqToSet(folder) : u \in SeqToSet(emitted)


\* C33: once initializeAccount has returned or failed, a connection that has
\* an open session or a scheduled watch loop, and on which disconnect() has
\* not been called, is held in imapServices, so that shutdown reaches it.
C33_OpenConnectionsRegistered ==
    ( /\ initPc \in {"done", "failed"}
      /\ ~disconnectCalled
      /\ (sessionOpen \/ pollIntervalId) ) => registered


\* C34: at any time at most one reconnect is pending or in flight for the
\* connection: the scheduled backoff timers and the connect() calls in
\* progress (awaiting imap.connect() or mailboxOpen) number at most one.
C34_AtMostOneReconnectPending == Pending <= 1


\* C35: whenever the connection is marked connected and disconnect() has not
\* been called on it, either its watch loop is scheduled, or the connect()
\* that marked it is still in progress, or a reconnect is pending: a
\* connect() whose mailboxOpen fails never leaves it connected with no watch
\* loop and no further attempt.
C35_ConnectedHasLoopOrRetry ==
    (isConnected /\ ~disconnectCalled) =>
        (pollIntervalId \/ initPc = "open" \/ Pending > 0)


C37_AtMostOneWatchTimer ==
    /\ intervalTimers <= 1
    /\ intervalTimers = (IF pollIntervalId THEN 1 ELSE 0)

\* C37 witness: a reconnect has run connect() to its end on a connection
\* that already had its timer, and there is one timer.
C37_Witness ==
    /\ lastAttempt = "reconnected"
    /\ ~disconnectCalled
    /\ intervalTimers = 1


\* C38: the mailbox lock taken by fetchLast30Days and by fetchRecentEmails
\* is released on every exit path (the return at the end, the early return
\* of an empty search, a thrown search or fetch error): the lock is held
\* only by a fetch that is still in progress.
C38_LockReleasedOnEveryExit ==
    /\ lockHolder = BackfillLock => initPc = "bfFetch"
    /\ \A t \in Ticks : lockHolder = TickLockOf(t) => tickPc[t] = "fetch"

\* C38 witness: the INBOX never held a message, so fetchLast30Days has left
\* by its early return, and the lock is free.
C38_Witness ==
    /\ initPc = "done"
    /\ nextUid = 1
    /\ lockHolder = NoLock

====
